---- MODULE Spec2Model ----
(***************************************************************************)
(* Extraction, deduplication and versioning engine of array-decisionops:   *)
(* the deterministic classifier (lib/decisionEngine.ts, lib/triggers.ts),  *)
(* the candidate merger (lib/llmMerge.ts), the message sync (lib/sync.ts)  *)
(* and the pipelines that persist their results (lib/orchestrate.ts).      *)
(*                                                                         *)
(* Strings are TLA+ strings; the helpers below compute on them character   *)
(* by character the way the JavaScript string methods of the source do.    *)
(* Two characters outside ASCII are written with ASCII stand-ins:          *)
(*   ELLIPSIS "^" for U+2026 and EMDASH "~" for U+2014.                    *)
(***************************************************************************)
EXTENDS Integers, Sequences, FiniteSets, TLC

\* ------------------------------------------------------------------------
\* Bounds of the model
\* ------------------------------------------------------------------------

\* Requests (imports or enrichments) one behaviour issues.
MaxRequests == 2

\* External (inference) decisions in one enrichment response.
MaxLLM == 2

\* messages handed to the extractors in one direct call
MaxMessages == 2

\* lines of a transcript handed to parseChat in one direct call
MaxLines == 3

\* attempts withRetry is allowed in one direct call
MaxAttempts == 4

\* chunks of the largest chat handed to runLLMOnMessages step by step
MaxChunks == 5

\* chunks of such a chat whose provider outcomes are chosen one by one
ScriptedChunks == 2

\* ------------------------------------------------------------------------
\* String helpers (JavaScript String methods)
\* ------------------------------------------------------------------------

ELLIPSIS == "^"

EMDASH == "~"

UpperAlpha == "ABCDEFGHIJKLMNOPQRSTUVWXYZ"

LowerAlpha == "abcdefghijklmnopqrstuvwxyz"

Digits == "0123456789"

CharAt(s, i) == SubSeq(s, i, i)

CharsOf(s) == {CharAt(s, i) : i \in 1..Len(s)}

IsUpper(c) == c \in CharsOf(UpperAlpha)

IsLowerAlnum(c) == c \in CharsOf(LowerAlpha) \cup CharsOf(Digits)

\* \w of a JavaScript regular expression
IsWordChar(c) == IsLowerAlnum(c) \/ IsUpper(c) \/ c = "_"

\* \s of a JavaScript regular expression (the ASCII part)
IsSpace(c) == c \in {" ", "\t", "\n", "\r", "\f"}

LowerChar(c) ==
  IF IsUpper(c)
  THEN CharAt(LowerAlpha, CHOOSE i \in 1..26 : CharAt(UpperAlpha, i) = c)
  ELSE c

RECURSIVE toLowerCase(_)
toLowerCase(s) ==
  IF s = "" THEN "" ELSE LowerChar(Head(s)) \o toLowerCase(Tail(s))

RECURSIVE trimStart(_)
trimStart(s) ==
  IF s # "" /\ IsSpace(Head(s)) THEN trimStart(Tail(s)) ELSE s

RECURSIVE trimEnd(_)
trimEnd(s) ==
  IF s # "" /\ IsSpace(CharAt(s, Len(s)))
  THEN trimEnd(SubSeq(s, 1, Len(s) - 1))
  ELSE s

trim(s) == trimEnd(trimStart(s))

\* s.slice(0, n)
slice0(s, n) == IF Len(s) <= n THEN s ELSE SubSeq(s, 1, n)

\* s.includes(sub)
includes(s, sub) ==
  \E i \in 1..(Len(s) - Len(sub) + 1) : SubSeq(s, i, i + Len(sub) - 1) = sub

\* s.split("\n")[0]
RECURSIVE firstLine(_)
firstLine(s) ==
  IF s = "" \/ Head(s) = "\n" THEN "" ELSE Head(s) \o firstLine(Tail(s))

\* s.replace(/\s+/g, " ")
RECURSIVE collapseSpaces(_)
collapseSpaces(s) ==
  IF s = "" THEN ""
  ELSE IF IsSpace(Head(s))
       THEN " " \o collapseSpaces(trimStart(s))
       ELSE Head(s) \o collapseSpaces(Tail(s))

\* s.split(/\s+/): the sequence of pieces between whitespace runs (a leading
\* or trailing run leaves an empty piece, as in JavaScript)
RECURSIVE splitSpaces(_, _)
splitSpaces(s, cur) ==
  IF s = "" THEN <<cur>>
  ELSE IF IsSpace(Head(s))
       THEN <<cur>> \o splitSpaces(trimStart(s), "")
       ELSE splitSpaces(Tail(s), cur \o Head(s))

\* a.localeCompare(b) < 0 for ISO-8601 timestamps: they differ only in
\* digits, so the first differing digit decides
DigitVal(c) == CHOOSE i \in 0..9 : CharAt(Digits, i + 1) = c

RECURSIVE StrLess(_, _)
StrLess(a, b) ==
  IF a = "" THEN b # ""
  ELSE IF b = "" THEN FALSE
  ELSE IF Head(a) = Head(b) THEN StrLess(Tail(a), Tail(b))
  ELSE IF Head(a) \in CharsOf(Digits) /\ Head(b) \in CharsOf(Digits)
       THEN DigitVal(Head(a)) < DigitVal(Head(b))
       ELSE Head(a) \in CharsOf(Digits)

\* lib/hash.ts generateHash (SHA-256, hex): collision-free on the model's
\* inputs, so a digest is written as its tagged preimage
generateHash(s) == "#" \o s

\* generateHash(s).slice(0, 12): the 12-digit prefix is taken collision-free too
hashPrefix12(s) == generateHash(s)

SeqToSet(q) == {q[i] : i \in 1..Len(q)}

\* const x = v; Body(x): the value is computed once, before the body
Bind(v, Body(_)) == CHOOSE out \in {Body(x) : x \in {v}} : TRUE

\* ------------------------------------------------------------------------
\* lib/triggers.ts
\* ------------------------------------------------------------------------

DECISION_FINAL_TRIGGERS ==
  { "final decision", "we decided", "it's decided", "it is decided",
    "we've decided", "we have decided", "decision made", "decision is",
    "decided on", "decision:", "verdict:", "confirmed:", "confirmed.",
    "confirmed,", "it's confirmed", "ok confirmed", "approved",
    "we approved", "all agreed", "everyone agreed", "we all agreed",
    "locked in", "lock it in", "finalized", "finalised", "we finalized",
    "we finalised", "that's settled", "settled then", "settled.",
    "we're set", "it's a deal", "deal.", "deal!", "go ahead with",
    "going ahead with", "we chose", "we have chosen", "we selected",
    "we settled on", "we'll use", "we will use", "we're using",
    "we are using", "we're doing", "that's final", "that is final",
    "that's the one", "that's the plan", "so it's", "done, we",
    "ok, decided", "ok decided", "alright, decided" }

DECISION_TENTATIVE_TRIGGERS ==
  { "let's go with", "lets go with", "we will go with", "we're going with",
    "we are going with", "the plan is", "our plan is", "the plan will be",
    "i suggest", "i propose", "proposal:", "proposed:",
    "i think we should", "i think we go", "we should go with",
    "we could go with", "maybe we go with", "we should do",
    "we should use", "i'd go with", "i'd say", "i'd suggest", "my vote is",
    "i vote for", "we go for", "let's go for", "going for", "thinking we",
    "thinking of going", "let's keep", "we'll keep", "sticking with",
    "let's stick with", "let's pick", "we pick", "let's choose",
    "we choose", "plan to", "we plan to", "planning to", "we're planning",
    "sounds like a plan", "sounds good, let's", "agreed on",
    "we agreed on", "makes sense to go", "let's do", "let's use",
    "going with", "we go with", "we'll go ahead", "we will go ahead",
    "ideally we", "moving forward with", "we move forward with" }

\* /\b...\b/ around a match at positions i..j of s, for a pattern that starts
\* and ends with a word character
WordBoundedAt(s, i, j) ==
  /\ (i = 1 \/ ~IsWordChar(CharAt(s, i - 1)))
  /\ (j = Len(s) \/ ~IsWordChar(CharAt(s, j + 1)))

\* /\b(a1|a2|...)\b/i.test(s)
MatchesWordAlt(s, alts) ==
  LET l == toLowerCase(s) IN
  \E a \in alts : \E i \in 1..(Len(l) - Len(a) + 1) :
     /\ SubSeq(l, i, i + Len(a) - 1) = a
     /\ WordBoundedAt(l, i, i + Len(a) - 1)

\* OPTION_SELECT_RE = /\boption\s+[a-z]\b/i
OPTION_SELECT_RE(s) ==
  LET l == toLowerCase(s) IN
  \E i \in 1..(Len(l) - 5) :
     /\ SubSeq(l, i, i + 5) = "option"
     /\ (i = 1 \/ ~IsWordChar(CharAt(l, i - 1)))
     /\ LET rest == SubSeq(l, i + 6, Len(l))
            t    == trimStart(rest)
        IN /\ rest # "" /\ IsSpace(Head(rest))
           /\ t # "" /\ Head(t) \in CharsOf(LowerAlpha)
           /\ (Len(t) = 1 \/ ~IsWordChar(CharAt(t, 2)))

RESP_SELF_ALTS ==
  { "i will", "i'll", "i'm going to", "i am going to", "i can do",
    "i'll take", "let me", "i'll do", "i'll sort", "i got it",
    "i got this", "i'll take care", "leave it to me" }

RESP_SELF_RE(s) == MatchesWordAlt(s, RESP_SELF_ALTS)

RESP_OTHER_ALTS ==
  {"can you", "you will", "need you to", "you need to", "could you",
   "would you", "please ensure", "are you able to"}

RESP_OTHER_RE(s) == MatchesWordAlt(s, RESP_OTHER_ALTS)

PLEASE_ACTION_VERBS ==
  {"send", "complete", "finish", "review", "update", "check", "fix", "write",
   "create", "add", "remove", "submit", "make", "do", "handle", "take", "get",
   "set", "ensure", "confirm", "prepare", "share", "upload", "schedule",
   "book", "arrange", "contact", "follow", "coordinate", "test", "deploy",
   "build", "run", "implement", "draft", "collect", "gather"}

\* the maximal run of word characters at the head of s
RECURSIVE wordPrefix(_)
wordPrefix(s) ==
  IF s # "" /\ IsWordChar(Head(s)) THEN Head(s) \o wordPrefix(Tail(s)) ELSE ""

\* (?:\w+\s+){0,k}(verb)\b matched at the head of s (s starts after \s+)
RECURSIVE PleaseTail(_, _)
PleaseTail(s, k) ==
  \/ \E v \in PLEASE_ACTION_VERBS :
        /\ Len(s) >= Len(v)
        /\ SubSeq(s, 1, Len(v)) = v
        /\ (Len(s) = Len(v) \/ ~IsWordChar(CharAt(s, Len(v) + 1)))
  \/ /\ k > 0
     /\ LET w    == wordPrefix(s)
            rest == SubSeq(s, Len(w) + 1, Len(s))
        IN /\ w # ""
           /\ rest # "" /\ IsSpace(Head(rest))
           /\ PleaseTail(trimStart(rest), k - 1)

\* RESP_PLEASE_ACTION_RE = /\bplease\s+(?:\w+\s+){0,3}(send|...)\b/i
RESP_PLEASE_ACTION_RE(s) ==
  LET l == toLowerCase(s) IN
  \E i \in 1..(Len(l) - 5) :
     /\ SubSeq(l, i, i + 5) = "please"
     /\ (i = 1 \/ ~IsWordChar(CharAt(l, i - 1)))
     /\ LET rest == SubSeq(l, i + 6, Len(l))
        IN /\ rest # "" /\ IsSpace(Head(rest))
           /\ PleaseTail(trimStart(rest), 3)

RESP_GENERAL_TRIGGER_PHRASES ==
  { "handle this", "take care of", "will do", "on it", "i'm on it",
    "im on it", "i am on it", "i will handle", "i will send",
    "i will update", "i will check", "i will prepare", "i will follow up",
    "i will review", "i will confirm", "i will share", "i will coordinate",
    "i will sort", "i will get", "i will make", "i got it", "i got this",
    "leave it to me", "no worries, i'll", "sure thing, i'll",
    "i'll manage", "i'll take it", "i'll be handling",
    "you're responsible", "follow up with", "responsible for",
    "assigned to", "action item", "your task", "your action",
    "noted, i will", "noted, will", "sure, i'll", "sure, i will",
    "ok i will", "ok i'll", "alright i will", "alright i'll",
    "needs to be done", "has to be done", "needs to be submitted",
    "need to be done by", "must be done by", "due on", "due by" }

RESP_DEADLINE_RE(s) == MatchesWordAlt(s, {"deadline"})

RESP_DEADLINE_ACTION_RE(s) ==
  MatchesWordAlt(s, {"by", "before", "until", "submit", "send", "complete",
                     "finish", "deliver"})

\* ------------------------------------------------------------------------
\* lib/decisionEngine.ts: deterministic extraction
\* ------------------------------------------------------------------------

\* the value of a property that was never set (JavaScript undefined)
Undefined == "<undefined>"

slugify(title) ==
  LET RECURSIVE under(_)
      \* .replace(/[^a-z0-9]+/g, "_")
      under(s) ==
        IF s = "" THEN ""
        ELSE IF IsLowerAlnum(Head(s)) THEN Head(s) \o under(Tail(s))
        ELSE IF Len(s) > 1 /\ ~IsLowerAlnum(CharAt(s, 2)) THEN under(Tail(s))
        ELSE "_" \o under(Tail(s))
      RECURSIVE stripL(_)
      stripL(s) == IF s # "" /\ Head(s) = "_" THEN stripL(Tail(s)) ELSE s
      RECURSIVE stripR(_)
      stripR(s) ==
        IF s # "" /\ CharAt(s, Len(s)) = "_"
        THEN stripR(SubSeq(s, 1, Len(s) - 1)) ELSE s
  IN slice0(stripR(stripL(under(toLowerCase(title)))), 64)

truncate(text, maxLen) ==
  LET t == trim(text) IN
  IF Len(t) <= maxLen THEN t
  ELSE trimEnd(slice0(t, maxLen - 1)) \o ELLIPSIS

\* the tiers tried in the other order
detectDecisionStatusTentativeFirst(lower) ==
  IF \E t \in DECISION_TENTATIVE_TRIGGERS : includes(lower, t)
  THEN "Tentative"
  ELSE IF \E t \in DECISION_FINAL_TRIGGERS : includes(lower, t) THEN "Final"
  ELSE IF OPTION_SELECT_RE(lower) THEN "Tentative"
  ELSE Undefined

detectDecisionStatus(lower) ==
  IF \E t \in DECISION_FINAL_TRIGGERS : includes(lower, t) THEN "Final"
  ELSE IF \E t \in DECISION_TENTATIVE_TRIGGERS : includes(lower, t)
       THEN "Tentative"
  ELSE IF OPTION_SELECT_RE(lower) THEN "Tentative"
  ELSE Undefined

buildDecisionTitle(msg) == truncate(trim(firstLine(msg.message_text)), 80)

buildDecisionExplanation(msg) ==
  truncate("Decision based on: \"" \o trim(firstLine(msg.message_text)) \o "\"",
           200)

\* the version number extractDecisions gives every candidate
CandidateVersion == 1

FinalConfidence == 80

TentativeConfidence == 60

decisionIdOf(key) == "dec_" \o hashPrefix12("decision|" \o key)

\* the scan without the test of seenIds
RECURSIVE extractDecisionsEvery(_, _, _)
extractDecisionsEvery(messages, items, evidence) ==
  IF messages = <<>> THEN [items |-> items, evidence |-> evidence]
  ELSE
    LET msg    == Head(messages)
        status == detectDecisionStatus(toLowerCase(msg.message_text))
        title  == buildDecisionTitle(msg)
        id     == decisionIdOf(title)
    IN IF status = Undefined
       THEN extractDecisionsEvery(Tail(messages), items, evidence)
       ELSE extractDecisionsEvery(
              Tail(messages),
              Append(items,
                     [id          |-> id,
                      title       |-> title,
                      version     |-> CandidateVersion,
                      status      |-> status,
                      confidence  |-> IF status = "Final" THEN FinalConfidence
                                      ELSE TentativeConfidence,
                      explanation |-> buildDecisionExplanation(msg),
                      timestamp   |-> msg.timestamp,
                      lastUpdated |-> msg.timestamp,
                      thread_key  |-> Undefined]),
              (id :> <<msg.message_hash>>) @@ evidence)

RECURSIVE extractDecisionsFrom(_, _, _)
extractDecisionsFrom(messages, items, evidence) ==
  IF messages = <<>> THEN [items |-> items, evidence |-> evidence]
  ELSE
    LET msg    == Head(messages)
        status == detectDecisionStatus(toLowerCase(msg.message_text))
        title  == buildDecisionTitle(msg)
        id     == decisionIdOf(title)
    IN IF status = Undefined \/ id \in DOMAIN evidence
       THEN extractDecisionsFrom(Tail(messages), items, evidence)
       ELSE extractDecisionsFrom(
              Tail(messages),
              Append(items,
                     [id          |-> id,
                      title       |-> title,
                      version     |-> CandidateVersion,
                      status      |-> status,
                      confidence  |-> IF status = "Final" THEN FinalConfidence
                                      ELSE TentativeConfidence,
                      explanation |-> buildDecisionExplanation(msg),
                      timestamp   |-> msg.timestamp,
                      lastUpdated |-> msg.timestamp,
                      thread_key  |-> Undefined]),
              (id :> <<msg.message_hash>>) @@ evidence)

extractDecisions(messages) == extractDecisionsFrom(messages, <<>>, <<>>)

detectResponsibilityTrigger(lower, original) ==
  \/ RESP_SELF_RE(original)
  \/ RESP_OTHER_RE(lower)
  \/ RESP_PLEASE_ACTION_RE(original)
  \/ \E p \in RESP_GENERAL_TRIGGER_PHRASES : includes(lower, p)
  \/ (RESP_DEADLINE_RE(lower) /\ RESP_DEADLINE_ACTION_RE(lower))

\* no owner taken from the message
buildResponsibilityOwnerUnassigned(msg) == "unassigned"

buildResponsibilityOwner(msg) ==
  IF RESP_SELF_RE(msg.message_text) THEN msg.sender ELSE "unassigned"

buildResponsibilityTitle(msg) == truncate(trim(firstLine(msg.message_text)), 80)

responsibilityIdOf(key) == "resp_" \o hashPrefix12("resp|" \o key)

RECURSIVE extractResponsibilitiesFrom(_, _, _)
extractResponsibilitiesFrom(messages, items, evidence) ==
  IF messages = <<>> THEN [items |-> items, evidence |-> evidence]
  ELSE
    LET msg   == Head(messages)
        title == buildResponsibilityTitle(msg)
        id    == responsibilityIdOf(title)
    IN IF \/ ~detectResponsibilityTrigger(toLowerCase(msg.message_text),
                                          msg.message_text)
          \/ id \in DOMAIN evidence
       THEN extractResponsibilitiesFrom(Tail(messages), items, evidence)
       ELSE extractResponsibilitiesFrom(
              Tail(messages),
              Append(items,
                     [id            |-> id,
                      title         |-> title,
                      description   |-> "",
                      owner         |-> buildResponsibilityOwner(msg),
                      due           |-> "",
                      status        |-> "Open",
                      timestamp     |-> msg.timestamp,
                      evidenceCount |-> 0]),
              (id :> <<msg.message_hash>>) @@ evidence)

extractResponsibilities(messages) ==
  extractResponsibilitiesFrom(messages, <<>>, <<>>)

\* ------------------------------------------------------------------------
\* lib/llmMerge.ts: the candidate merger
\* ------------------------------------------------------------------------

STOP_WORDS ==
  { "the", "a", "an", "and", "or", "but", "in", "on", "at", "to", "for", "of",
    "with", "is", "was", "are", "were", "be", "been", "that", "this", "it",
    "its", "by", "from", "as", "into", "about", "than", "then", "we", "our",
    "all", "will", "has", "have" }

\* .replace(/[^a-z0-9\s]/g, "")
RECURSIVE keepAlnumSpace(_)
keepAlnumSpace(s) ==
  IF s = "" THEN ""
  ELSE IF IsLowerAlnum(Head(s)) \/ IsSpace(Head(s))
       THEN Head(s) \o keepAlnumSpace(Tail(s))
       ELSE keepAlnumSpace(Tail(s))

significantWords(title) ==
  {w \in SeqToSet(splitSpaces(keepAlnumSpace(toLowerCase(title)), "")) :
     Len(w) > 2 /\ w \notin STOP_WORDS}

\* overlap / min(|wa|, |wb|) >= 0.65, in hundredths
SimilarityPercent == 65

titlesAreDuplicates(a, b) ==
  LET wa == significantWords(a)
      wb == significantWords(b)
      m  == IF Cardinality(wa) <= Cardinality(wb)
            THEN Cardinality(wa) ELSE Cardinality(wb)
  IN /\ wa # {} /\ wb # {}
     /\ 100 * Cardinality(wa \cap wb) >= SimilarityPercent * m

\* itemsById is an object keyed by id whose values are read in insertion order:
\* a sequence of items with pairwise distinct ids
IdsOf(items) == [i \in 1..Len(items) |-> items[i].id]

HasId(items, id) == \E i \in 1..Len(items) : items[i].id = id

ItemOf(items, id) == items[CHOOSE i \in 1..Len(items) : items[i].id = id]

\* delete itemsById[id]
RECURSIVE DeleteId(_, _)
DeleteId(items, id) ==
  IF items = <<>> THEN <<>>
  ELSE IF Head(items).id = id THEN Tail(items)
  ELSE <<Head(items)>> \o DeleteId(Tail(items), id)

\* delete evidenceById[id]
DropKey(f, id) == [k \in (DOMAIN f) \ {id} |-> f[k]]

\* evidenceById[id] ?? []
EvidenceOr(f, id) == IF id \in DOMAIN f THEN f[id] ELSE <<>>

\* Array.from(new Set(a then b)): first occurrences, in order
RECURSIVE uniqueAppend(_, _)
uniqueAppend(a, b) ==
  IF b = <<>> THEN a
  ELSE IF Head(b) \in SeqToSet(a) THEN uniqueAppend(a, Tail(b))
  ELSE uniqueAppend(Append(a, Head(b)), Tail(b))

\* hashToDetId[h]: the entries of the evidence map are visited in insertion
\* order (the order of the items) and a later entry overwrites an earlier one
hashToId(det, h) ==
  LET hit == {i \in 1..Len(det.items) :
                h \in SeqToSet(EvidenceOr(det.evidence, det.items[i].id))}
  IN IF hit = {} THEN Undefined
     ELSE det.items[CHOOSE i \in hit : \A k \in hit : k <= i].id

\* the first evidence hash of the external decision that a deterministic
\* candidate carries decides the match
RECURSIVE firstMatch(_, _)
firstMatch(det, hashes) ==
  IF hashes = <<>> THEN Undefined
  ELSE IF hashToId(det, Head(hashes)) # Undefined
       THEN hashToId(det, Head(hashes))
       ELSE firstMatch(det, Tail(hashes))

\* ids.sort((a, b) => key[b] - key[a]): stable, descending
RECURSIVE insertDesc(_, _, _)
insertDesc(sorted, id, key) ==
  IF sorted = <<>> THEN <<id>>
  ELSE IF key[Head(sorted)] >= key[id]
       THEN <<Head(sorted)>> \o insertDesc(Tail(sorted), id, key)
       ELSE <<id>> \o sorted

RECURSIVE sortDesc(_, _, _)
sortDesc(ids, acc, key) ==
  IF ids = <<>> THEN acc
  ELSE sortDesc(Tail(ids), insertDesc(acc, Head(ids), key), key)

\* lines 242-283: one external decision folded into the working copies
applyLLMDecision(det, w, llmDec) ==
  LET matchedId == firstMatch(det, llmDec.evidence_hashes)
      newId     == decisionIdOf(llmDec.thread_key)
  IN IF matchedId # Undefined /\ HasId(w.items, matchedId)
     THEN [w EXCEPT !.items =
             [i \in 1..Len(w.items) |->
                IF w.items[i].id = matchedId
                THEN [w.items[i] EXCEPT !.title       = llmDec.title,
                                        !.status      = llmDec.status,
                                        !.confidence  = llmDec.confidence,
                                        !.explanation = llmDec.explanation,
                                        !.timestamp   = llmDec.decided_at,
                                        !.lastUpdated = llmDec.decided_at,
                                        !.thread_key  = llmDec.thread_key]
                ELSE w.items[i]]]
     ELSE IF HasId(w.items, newId) THEN w
     ELSE [w EXCEPT
             !.items = Append(w.items,
                 [id          |-> newId,
                  title       |-> llmDec.title,
                  version     |-> CandidateVersion,
                  status      |-> llmDec.status,
                  confidence  |-> llmDec.confidence,
                  explanation |-> llmDec.explanation,
                  timestamp   |-> llmDec.decided_at,
                  lastUpdated |-> llmDec.decided_at,
                  thread_key  |-> llmDec.thread_key]),
             !.evidence = (newId :> llmDec.evidence_hashes) @@ w.evidence]

RECURSIVE applyLLMDecisions(_, _, _)
applyLLMDecisions(det, w, llm) ==
  IF llm = <<>> THEN w
  ELSE applyLLMDecisions(det, applyLLMDecision(det, w, Head(llm)), Tail(llm))

\* item.thread_key ?? id
groupKeyOf(item) ==
  IF item.thread_key = Undefined THEN item.id ELSE item.thread_key

\* names byThreadKey inherits from Object.prototype that a sanitised
\* thread_key can spell: byThreadKey[key] is then a function, not an array
InheritedKeys == {"constructor"}

\* lines 294-306: one group of ids sharing a grouping key
collapseGroup(w, ids) ==
  IF Len(ids) <= 1 THEN w
  ELSE
    LET conf     == [id \in SeqToSet(ids) |-> ItemOf(w.items, id).confidence]
        sorted   == sortDesc(ids, <<>>, conf)
        winnerId == Head(sorted)
        losers   == Tail(sorted)
        RECURSIVE fold(_, _, _, _)
        fold(items, evidence, merged, rest) ==
          IF rest = <<>>
          THEN [w EXCEPT !.items = items,
                         !.evidence = [evidence EXCEPT ![winnerId] = merged]]
          ELSE fold(DeleteId(items, Head(rest)),
                    DropKey(evidence, Head(rest)),
                    uniqueAppend(merged, EvidenceOr(evidence, Head(rest))),
                    Tail(rest))
    IN fold(w.items, w.evidence,
            uniqueAppend(<<>>, EvidenceOr(w.evidence, winnerId)), losers)

\* lines 288-306: the grouping keys in order of first appearance, each group
\* collapsed in turn
RECURSIVE collapseByThreadKey(_, _, _)
collapseByThreadKey(w, snapshot, done) ==
  IF snapshot = <<>> THEN w
  ELSE
    LET key == groupKeyOf(Head(snapshot))
        ids == [i \in 1..Len(SelectSeq(snapshot, LAMBDA it : groupKeyOf(it) = key))
                  |-> SelectSeq(snapshot, LAMBDA it : groupKeyOf(it) = key)[i].id]
    IN IF key \in done
       THEN collapseByThreadKey(w, Tail(snapshot), done)
       ELSE collapseByThreadKey(collapseGroup(w, ids), Tail(snapshot),
                                done \cup {key})

\* mergeDecisions returning before its title-similarity pass
fuzzyPassOmitted(w, allIds, i, j) == w

\* lines 310-329: the title-similarity pass over the ids present when it
\* starts.  Reading itemsById[idA].title after idA was deleted as the loser
\* is a TypeError: w.threw records it and the pass stops there.
RECURSIVE fuzzyPass(_, _, _, _)
fuzzyPass(w, allIds, i, j) ==
  IF i > Len(allIds) THEN w
  ELSE IF j > Len(allIds) THEN fuzzyPass(w, allIds, i + 1, i + 2)
  ELSE IF j = i + 1 /\ ~HasId(w.items, allIds[i])
       THEN fuzzyPass(w, allIds, i + 1, i + 2)
  ELSE IF ~HasId(w.items, allIds[j]) THEN fuzzyPass(w, allIds, i, j + 1)
  ELSE IF ~HasId(w.items, allIds[i]) THEN [w EXCEPT !.threw = TRUE]
  ELSE
    LET idA == allIds[i]
        idB == allIds[j]
        a   == ItemOf(w.items, idA)
        b   == ItemOf(w.items, idB)
        winnerId == IF a.confidence >= b.confidence THEN idA ELSE idB
        loserId  == IF a.confidence >= b.confidence THEN idB ELSE idA
        merged   == uniqueAppend(uniqueAppend(<<>>, EvidenceOr(w.evidence, winnerId)),
                                 EvidenceOr(w.evidence, loserId))
    IN IF ~titlesAreDuplicates(a.title, b.title)
       THEN fuzzyPass(w, allIds, i, j + 1)
       ELSE fuzzyPass([w EXCEPT
                         !.items = DeleteId(w.items, loserId),
                         !.evidence = DropKey([w.evidence EXCEPT ![winnerId] = merged],
                                              loserId)],
                      allIds, i, j + 1)

\* lines 223-335, everything after the early return
mergeDecisionsWork(det, llm) ==
  LET w0 == [items |-> det.items, evidence |-> det.evidence, threw |-> FALSE]
      w1 == applyLLMDecisions(det, w0, llm)
      w2 == collapseByThreadKey(w1, w1.items, {})
  IN IF \E i \in 1..Len(w1.items) : groupKeyOf(w1.items[i]) \in InheritedKeys
     THEN [w1 EXCEPT !.threw = TRUE]
     ELSE fuzzyPass(w2, IdsOf(w2.items), 1, 2)

\* mergeDecisions throws instead of returning
mergeDecisionsThrows(det, llm) == llm # <<>> /\ mergeDecisionsWork(det, llm).threw

\* mergeDecisions without the early return of line 221: the empty external
\* list goes through the two deduplication passes
mergeDecisionsNoEarlyReturn(det, llm) ==
  [items    |-> mergeDecisionsWork(det, llm).items,
   evidence |-> mergeDecisionsWork(det, llm).evidence]

\* the value mergeDecisions returns (when it returns)
mergeDecisions(det, llm) ==
  IF llm = <<>> THEN det
  ELSE [items    |-> mergeDecisionsWork(det, llm).items,
        evidence |-> mergeDecisionsWork(det, llm).evidence]

\* lines 362-392: one external responsibility folded into the working copies
applyLLMResponsibility(det, w, llmResp) ==
  LET matchedId == hashToId(det, llmResp.evidence_hash)
      newId     == responsibilityIdOf(llmResp.evidence_hash)
  IN IF matchedId # Undefined /\ HasId(w.items, matchedId)
     THEN [w EXCEPT !.items =
             [i \in 1..Len(w.items) |->
                IF w.items[i].id = matchedId
                THEN [w.items[i] EXCEPT !.title       = llmResp.title,
                                        !.owner       = llmResp.owner,
                                        !.due         = llmResp.due,
                                        !.description = llmResp.description]
                ELSE w.items[i]]]
     ELSE IF HasId(w.items, newId) THEN w
     ELSE [w EXCEPT
             !.items = Append(w.items,
                 [id            |-> newId,
                  title         |-> llmResp.title,
                  owner         |-> llmResp.owner,
                  due           |-> llmResp.due,
                  description   |-> llmResp.description,
                  status        |-> "Open",
                  timestamp     |-> "",
                  evidenceCount |-> 1]),
             !.evidence = (newId :> <<llmResp.evidence_hash>>) @@ w.evidence]

RECURSIVE applyLLMResponsibilities(_, _, _)
applyLLMResponsibilities(det, w, llm) ==
  IF llm = <<>> THEN w
  ELSE applyLLMResponsibilities(det, applyLLMResponsibility(det, w, Head(llm)),
                                Tail(llm))

\* the key built from the title as written
respKeyExact(item) == item.owner \o "|" \o item.title

\* `${item.owner}|${item.title.toLowerCase().replace(/\s+/g, " ").trim()}`
respKeyOf(item) ==
  item.owner \o "|" \o trim(collapseSpaces(toLowerCase(item.title)))

\* lines 403-419: one group of ids sharing (owner, normalised title)
collapseRespGroup(w, ids) ==
  IF Len(ids) <= 1 THEN w
  ELSE
    LET hasDue   == [id \in SeqToSet(ids) |->
                       IF ItemOf(w.items, id).due # "" THEN 1 ELSE 0]
        sorted   == sortDesc(ids, <<>>, hasDue)
        winnerId == Head(sorted)
        RECURSIVE fold(_, _, _)
        fold(items, evidence, rest) ==
          IF rest = <<>>
          THEN [w EXCEPT
                  !.items = items,
                  !.evidence = [evidence EXCEPT ![winnerId] =
                                  uniqueAppend(<<>>, EvidenceOr(evidence, winnerId))]]
          ELSE fold(DeleteId(items, Head(rest)), DropKey(evidence, Head(rest)),
                    Tail(rest))
    IN fold(w.items, w.evidence, Tail(sorted))

RECURSIVE collapseByRespKey(_, _, _)
collapseByRespKey(w, snapshot, done) ==
  IF snapshot = <<>> THEN w
  ELSE
    LET key == respKeyOf(Head(snapshot))
        ids == [i \in 1..Len(SelectSeq(snapshot, LAMBDA it : respKeyOf(it) = key))
                  |-> SelectSeq(snapshot, LAMBDA it : respKeyOf(it) = key)[i].id]
    IN IF key \in done
       THEN collapseByRespKey(w, Tail(snapshot), done)
       ELSE collapseByRespKey(collapseRespGroup(w, ids), Tail(snapshot),
                              done \cup {key})

\* lines 343-425, everything after the early return
mergeResponsibilitiesWork(det, llm) ==
  LET w0 == [items |-> det.items, evidence |-> det.evidence]
      w1 == applyLLMResponsibilities(det, w0, llm)
  IN collapseByRespKey(w1, w1.items, {})

mergeResponsibilities(det, llm) ==
  IF llm = <<>> THEN det ELSE mergeResponsibilitiesWork(det, llm)

\* ------------------------------------------------------------------------
\* lib/parser.ts: messages of a transcript
\* ------------------------------------------------------------------------

normalizeSender(sender) ==
  IF trim(sender) = "" THEN "system" ELSE collapseSpaces(trim(sender))

\* \r\n and lone \r become \n
RECURSIVE normalizeNewlines(_)
normalizeNewlines(s) ==
  IF s = "" THEN ""
  ELSE IF Head(s) = "\r"
       THEN "\n" \o normalizeNewlines(
              IF Len(s) > 1 /\ CharAt(s, 2) = "\n" THEN Tail(Tail(s)) ELSE Tail(s))
       ELSE Head(s) \o normalizeNewlines(Tail(s))

\* line.replace(/[ \t]+$/, "") on every line of s
RECURSIVE stripLineEnds(_, _)
stripLineEnds(s, pending) ==
  IF s = "" THEN ""
  ELSE IF Head(s) \in {" ", "\t"} THEN stripLineEnds(Tail(s), pending \o Head(s))
  ELSE IF Head(s) = "\n" THEN "\n" \o stripLineEnds(Tail(s), "")
  ELSE pending \o Head(s) \o stripLineEnds(Tail(s), "")

normalizeMessageText(text) == stripLineEnds(trim(normalizeNewlines(text)), "")

\* the digest of timestamp and body alone
computeMessageHashNoSender(timestamp, sender, message_text) ==
  generateHash(collapseSpaces(trim(timestamp)) \o "|"
               \o normalizeMessageText(message_text))

computeMessageHash(timestamp, sender, message_text) ==
  generateHash(collapseSpaces(trim(timestamp)) \o "|"
               \o collapseSpaces(trim(sender)) \o "|"
               \o normalizeMessageText(message_text))

\* the loop without its else branch: a line without a header is skipped
RECURSIVE parseHeaderLines(_, _, _)
parseHeaderLines(lines, current, results) ==
  LET commit ==
        IF current = <<>> THEN results
        ELSE Append(results,
               [current[1] EXCEPT !.message_hash =
                  computeMessageHash(current[1].timestamp, current[1].sender,
                                     current[1].message_text)])
  IN IF lines = <<>> THEN commit
     ELSE IF Head(lines).header
          THEN parseHeaderLines(Tail(lines),
                 <<[sender       |-> normalizeSender(Head(lines).sender),
                    timestamp    |-> Head(lines).timestamp,
                    message_text |-> Head(lines).message_text,
                    message_hash |-> ""]>>,
                 commit)
     ELSE parseHeaderLines(Tail(lines), current, results)

\* A transcript line is given with the outcome of WHATSAPP_LINE_REGEX on it:
\* a header line carries the timestamp (as parseTimestampToISO renders it),
\* the sender group and the message text; any other line carries its text.
RECURSIVE parseLines(_, _, _)
parseLines(lines, current, results) ==
  LET commit ==
        IF current = <<>> THEN results
        ELSE Append(results,
               [current[1] EXCEPT !.message_hash =
                  computeMessageHash(current[1].timestamp, current[1].sender,
                                     current[1].message_text)])
  IN IF lines = <<>> THEN commit
     ELSE IF Head(lines).header
          THEN parseLines(Tail(lines),
                 <<[sender       |-> normalizeSender(Head(lines).sender),
                    timestamp    |-> Head(lines).timestamp,
                    message_text |-> Head(lines).message_text,
                    message_hash |-> ""]>>,
                 commit)
     ELSE IF current = <<>> THEN parseLines(Tail(lines), current, results)
     ELSE parseLines(Tail(lines),
            <<[current[1] EXCEPT !.message_text =
                 current[1].message_text \o "\n" \o Head(lines).message_text]>>,
            results)

parseChat(lines) == parseLines(lines, <<>>, <<>>)

\* ------------------------------------------------------------------------
\* lib/llm.ts
\* ------------------------------------------------------------------------

\* A parsed JSON value with the type JavaScript sees in it.  A number is
\* written in tenths (905 is 90.5); a field an object does not have reads as
\* undefined.
JString(s) == [t |-> "string", str |-> s]

JNumber(tenths) == [t |-> "number", tenths |-> tenths]

JArray(q) == [t |-> "array", items |-> q]

JObject(r) == [t |-> "object", fields |-> r]

JNull == [t |-> "null"]

JUndefined == [t |-> "undefined"]

\* x[name] of a value that is not null or undefined
Field(x, name) ==
  IF x.t = "object" /\ name \in DOMAIN x.fields THEN x.fields[name] ELSE JUndefined

\* x && typeof x === "object"
IsObjectLike(x) == x.t \in {"object", "array"}

isString(x) == x.t = "string"

\* String(n) of a natural number
RECURSIVE NatToString(_)
NatToString(n) ==
  IF n < 10 THEN CharAt(Digits, n + 1)
  ELSE NatToString(n \div 10) \o CharAt(Digits, (n % 10) + 1)

\* s.padStart(n, "0")
RECURSIVE padStartZero(_, _)
padStartZero(s, n) == IF Len(s) >= n THEN s ELSE padStartZero("0" \o s, n)

\* the batch-local id of the message at index i (from 0) of a chunk
BatchId(i) == "m" \o padStartZero(NatToString(i), 3)

\* buildPrompt line 158, idToHash[id] = m.message_hash, for the messages at
\* positions lo..hi of the chunk
RECURSIVE idTable(_, _, _)
idTable(chunk, lo, hi) ==
  IF lo > hi THEN <<>>
  ELSE IF lo = hi THEN BatchId(lo - 1) :> chunk[lo].message_hash
  ELSE idTable(chunk, lo, (lo + hi) \div 2)
         @@ idTable(chunk, (lo + hi) \div 2 + 1, hi)

\* buildPrompt: the messages as the prompt lists them and the table from
\* batch-local ids to message hashes
buildPrompt(chunk) ==
  [prompt |-> [k \in 1..Len(chunk) |->
                 [id |-> BatchId(k - 1), sender |-> chunk[k].sender,
                  text |-> chunk[k].message_text, ts |-> chunk[k].timestamp]],
   idToHash |-> idTable(chunk, 1, Len(chunk))]

\* idToHash[id] ?? id
hashOrId(idToHash, id) == IF id \in DOMAIN idToHash THEN idToHash[id] ELSE id

\* .replace(/[^a-z0-9_]/g, "_")
RECURSIVE replaceNonKeyChars(_)
replaceNonKeyChars(s) ==
  IF s = "" THEN ""
  ELSE (IF IsLowerAlnum(Head(s)) \/ Head(s) = "_" THEN Head(s) ELSE "_")
       \o replaceNonKeyChars(Tail(s))

RECURSIVE stripLeadingUnderscores(_)
stripLeadingUnderscores(s) ==
  IF s # "" /\ Head(s) = "_" THEN stripLeadingUnderscores(Tail(s)) ELSE s

RECURSIVE stripTrailingUnderscores(_)
stripTrailingUnderscores(s) ==
  IF s # "" /\ CharAt(s, Len(s)) = "_"
  THEN stripTrailingUnderscores(SubSeq(s, 1, Len(s) - 1))
  ELSE s

\* validateLLMResult lines 206-210
sanitizeThreadKey(s) ==
  slice0(stripTrailingUnderscores(stripLeadingUnderscores(
           replaceNonKeyChars(toLowerCase(s)))), 64)

\* Math.max(0, Math.min(100, Math.round(x))) of a number in tenths
clampConfidence(tenths) ==
  LET rounded == (tenths + 5) \div 10
  IN IF rounded < 0 THEN 0 ELSE IF rounded > 100 THEN 100 ELSE rounded

\* the test without its check of the status
decisionIsValidAnyStatus(d) ==
  /\ IsObjectLike(d)
  /\ isString(Field(d, "thread_key")) /\ trim(Field(d, "thread_key").str) # ""
  /\ isString(Field(d, "title")) /\ trim(Field(d, "title").str) # ""
  /\ Field(d, "confidence").t = "number"
  /\ isString(Field(d, "decided_at"))
  /\ Field(d, "evidence_hashes").t = "array"

\* validateLLMResult lines 192-204: the raw decision is kept
decisionIsValid(d) ==
  /\ IsObjectLike(d)
  /\ isString(Field(d, "thread_key")) /\ trim(Field(d, "thread_key").str) # ""
  /\ isString(Field(d, "title")) /\ trim(Field(d, "title").str) # ""
  /\ isString(Field(d, "status"))
  /\ Field(d, "status").str \in {"Final", "Tentative"}
  /\ Field(d, "confidence").t = "number"
  /\ isString(Field(d, "decided_at"))
  /\ Field(d, "evidence_hashes").t = "array"

\* validateLLMResult lines 205-219
sanitizeDecision(d, idToHash) ==
  LET ids == SelectSeq(Field(d, "evidence_hashes").items, isString)
  IN [thread_key |-> sanitizeThreadKey(Field(d, "thread_key").str),
      title |-> slice0(Field(d, "title").str, 80),
      status |-> Field(d, "status").str,
      confidence |-> clampConfidence(Field(d, "confidence").tenths),
      explanation |-> IF isString(Field(d, "explanation"))
                      THEN slice0(Field(d, "explanation").str, 300) ELSE "",
      decided_at |-> Field(d, "decided_at").str,
      evidence_hashes |-> [k \in 1..Len(ids) |-> hashOrId(idToHash, ids[k].str)]]

\* validateLLMResult lines 226-234: the raw responsibility is kept
responsibilityIsValid(r) ==
  /\ IsObjectLike(r)
  /\ isString(Field(r, "title")) /\ trim(Field(r, "title").str) # ""
  /\ isString(Field(r, "evidence_hash"))
  /\ trim(Field(r, "evidence_hash").str) # ""

\* validateLLMResult lines 235-242
sanitizeResponsibility(r, idToHash) ==
  [title |-> slice0(Field(r, "title").str, 80),
   owner |-> IF isString(Field(r, "owner")) /\ trim(Field(r, "owner").str) # ""
             THEN Field(r, "owner").str ELSE "unassigned",
   due |-> IF isString(Field(r, "due")) THEN Field(r, "due").str ELSE "",
   description |-> IF isString(Field(r, "description"))
                   THEN Field(r, "description").str ELSE "",
   evidence_hash |-> hashOrId(idToHash, Field(r, "evidence_hash").str)]

EmptyChunkResult == [decisions |-> <<>>, responsibilities |-> <<>>]

\* the raw items of a field that pass the test, in order
ValidItems(raw, name, IsValid(_)) ==
  IF Field(raw, name).t = "array" THEN SelectSeq(Field(raw, name).items, IsValid)
  ELSE <<>>

validateLLMResult(raw, idToHash) ==
  IF ~IsObjectLike(raw) THEN EmptyChunkResult
  ELSE [decisions |->
          Bind(ValidItems(raw, "decisions", decisionIsValid),
               LAMBDA ds : [k \in 1..Len(ds) |->
                              sanitizeDecision(ds[k], idToHash)]),
        responsibilities |->
          Bind(ValidItems(raw, "responsibilities", responsibilityIsValid),
               LAMBDA rs : [k \in 1..Len(rs) |->
                              sanitizeResponsibility(rs[k], idToHash)])]

\* What one request to a provider meets: no API key configured, a fetch that
\* rejects (no connection, timeout), an HTTP error status with a body, or a
\* completion whose content is missing, is not JSON, or parses to a value.
NoApiKey ==
  [kind |-> "no_api_key", status |-> 0, body |-> "", value |-> JUndefined]

FetchFailed ==
  [kind |-> "fetch_failed", status |-> 0, body |-> "", value |-> JUndefined]

HttpError(status, body) ==
  [kind |-> "http", status |-> status, body |-> body, value |-> JUndefined]

EmptyContent ==
  [kind |-> "empty_content", status |-> 200, body |-> "", value |-> JUndefined]

MalformedJSON ==
  [kind |-> "malformed_json", status |-> 200, body |-> "", value |-> JUndefined]

Completion(value) ==
  [kind |-> "json", status |-> 200, body |-> "", value |-> value]

\* the two ways a call ends
Thrown(message) ==
  [threw |-> TRUE, message |-> message, result |-> EmptyChunkResult]

Returned(result) == [threw |-> FALSE, message |-> "", result |-> result]

\* the body shared by callOpenRouter and callGroq; JSON.parse in extractJSON
\* throws a SyntaxError on content that is not JSON
callChatCompletions(label, keyName, bodyLimit, outcome, idToHash) ==
  CASE outcome.kind = "no_api_key" -> Thrown(keyName \o " not configured")
    [] outcome.kind = "fetch_failed" -> Thrown("fetch failed")
    [] outcome.kind = "http" ->
         Thrown(label \o " API " \o NatToString(outcome.status) \o ": "
                \o slice0(outcome.body, bodyLimit))
    [] outcome.kind = "empty_content" -> Thrown(label \o " returned empty content")
    [] outcome.kind = "malformed_json" -> Thrown("Unexpected token in JSON")
    [] OTHER -> Returned(validateLLMResult(outcome.value, idToHash))

callOpenRouter(outcome, idToHash) ==
  callChatCompletions("OpenRouter", "OPENROUTER_API_KEY", 300, outcome, idToHash)

callGroq(outcome, idToHash) ==
  callChatCompletions("Groq", "GROQ_API_KEY", 200, outcome, idToHash)

\* the loop without the test of line 276: every error is retried
RECURSIVE withRetryAnyError(_, _, _, _, _)
withRetryAnyError(provider, script, idToHash, attempt, maxAttempts) ==
  Bind(IF provider = "openrouter"
       THEN callOpenRouter(script[attempt + 1], idToHash)
       ELSE callGroq(script[attempt + 1], idToHash),
       LAMBDA r :
         IF r.threw /\ attempt + 1 < maxAttempts
         THEN withRetryAnyError(provider, script, idToHash, attempt + 1,
                                maxAttempts)
         ELSE [threw |-> r.threw, message |-> r.message, result |-> r.result,
               attempts |-> attempt + 1])

\* withRetry: script holds what the successive attempts meet; the result
\* records how many attempts were made
RECURSIVE withRetry(_, _, _, _, _)
withRetry(provider, script, idToHash, attempt, maxAttempts) ==
  Bind(IF provider = "openrouter"
       THEN callOpenRouter(script[attempt + 1], idToHash)
       ELSE callGroq(script[attempt + 1], idToHash),
       LAMBDA r :
         IF r.threw /\ includes(r.message, "429") /\ attempt + 1 < maxAttempts
         THEN withRetry(provider, script, idToHash, attempt + 1, maxAttempts)
         ELSE [threw |-> r.threw, message |-> r.message, result |-> r.result,
               attempts |-> attempt + 1])

CallsOf(provider, n) == [k \in 1..n |-> provider]

\* no second provider: the chunk is given up
fallbackOmitted(scripts, failed, idToHash, calls) ==
  [found |-> FALSE, threw |-> FALSE, result |-> EmptyChunkResult,
   provider |-> "none", failed |-> failed, calls |-> calls]

\* callWithFallback lines 394-409, after the first provider was skipped or
\* failed: calls lists the requests made so far
fallbackToGroq(scripts, failed, idToHash, calls) ==
  IF "groq" \in failed
  THEN [found |-> FALSE, threw |-> FALSE, result |-> EmptyChunkResult,
        provider |-> "none", failed |-> failed, calls |-> calls]
  ELSE Bind(withRetry("groq", scripts.groq, idToHash, 0, 2),
            LAMBDA second :
              IF ~second.threw
              THEN [found |-> TRUE, threw |-> FALSE, result |-> second.result,
                    provider |-> "groq", failed |-> failed,
                    calls |-> calls \o CallsOf("groq", second.attempts)]
              ELSE [found |-> FALSE, threw |-> FALSE,
                    result |-> EmptyChunkResult, provider |-> "none",
                    failed |-> failed \cup {"groq"},
                    calls |-> calls \o CallsOf("groq", second.attempts)])

\* callWithFallback without the test of line 383: the first provider is
\* asked whether or not it failed before
callWithFallbackAlways(scripts, failed, idToHash) ==
  Bind(withRetry("openrouter", scripts.openrouter, idToHash, 0, 2),
       LAMBDA first :
         IF ~first.threw
         THEN [found |-> TRUE, threw |-> FALSE, result |-> first.result,
               provider |-> "openrouter", failed |-> failed,
               calls |-> CallsOf("openrouter", first.attempts)]
         ELSE fallbackToGroq(scripts, failed \cup {"openrouter"}, idToHash,
                             CallsOf("openrouter", first.attempts)))

\* callWithFallback: scripts gives each provider's script for this chunk.
\* Both calls stand in try blocks that swallow the exception; found is FALSE
\* for the null result; calls lists the requests made.
callWithFallback(scripts, failed, idToHash) ==
  IF "openrouter" \in failed
  THEN fallbackToGroq(scripts, failed, idToHash, <<>>)
  ELSE Bind(withRetry("openrouter", scripts.openrouter, idToHash, 0, 2),
            LAMBDA first :
              IF ~first.threw
              THEN [found |-> TRUE, threw |-> FALSE, result |-> first.result,
                    provider |-> "openrouter", failed |-> failed,
                    calls |-> CallsOf("openrouter", first.attempts)]
              ELSE fallbackToGroq(scripts, failed \cup {"openrouter"}, idToHash,
                                  CallsOf("openrouter", first.attempts)))

SINGLE_CALL_THRESHOLD == 700

LLM_CHUNK_SIZE == 200

\* the split with the number of chunks rounded down
chunksOfFullOnly(messages) ==
  IF Len(messages) <= SINGLE_CALL_THRESHOLD THEN <<messages>>
  ELSE [i \in 1..(Len(messages) \div LLM_CHUNK_SIZE) |->
          SubSeq(messages, (i - 1) * LLM_CHUNK_SIZE + 1, i * LLM_CHUNK_SIZE)]

\* runLLMOnMessages lines 446-453
chunksOf(messages) ==
  IF Len(messages) <= SINGLE_CALL_THRESHOLD THEN <<messages>>
  ELSE [i \in 1..((Len(messages) + LLM_CHUNK_SIZE - 1) \div LLM_CHUNK_SIZE) |->
          SubSeq(messages, (i - 1) * LLM_CHUNK_SIZE + 1,
                 IF i * LLM_CHUNK_SIZE < Len(messages)
                 THEN i * LLM_CHUNK_SIZE ELSE Len(messages))]

\* the script a provider follows for the i-th chunk: env lists the scripts of
\* the chunks, and the last one serves every further chunk
ScriptFor(scripts, i) == scripts[IF i <= Len(scripts) THEN i ELSE Len(scripts)]

\* runLLMOnMessages lines 463-468: the results of a chunk are taken up
accumulate(acc, outcome) ==
  IF outcome.threw THEN [acc EXCEPT !.threw = TRUE]
  ELSE IF ~outcome.found
  THEN [acc EXCEPT !.failed = outcome.failed, !.calls = @ \o outcome.calls]
  ELSE [acc EXCEPT
          !.failed = outcome.failed,
          !.calls = @ \o outcome.calls,
          !.provider = IF @ = "none" THEN outcome.provider ELSE @,
          !.decisions = @ \o outcome.result.decisions,
          !.responsibilities = @ \o outcome.result.responsibilities]

\* runLLMOnMessages lines 455-469, the loop from chunk i on
RECURSIVE runChunks(_, _, _, _)
runChunks(chunks, i, env, acc) ==
  IF i > Len(chunks) \/ Cardinality(acc.failed) >= 2 \/ acc.threw THEN acc
  ELSE Bind(buildPrompt(chunks[i]).idToHash,
            LAMBDA idToHash :
              Bind(callWithFallback(
                     [openrouter |-> ScriptFor(env.openrouter, i),
                      groq |-> ScriptFor(env.groq, i)],
                     acc.failed, idToHash),
                   LAMBDA outcome :
                     Bind(accumulate(acc, outcome),
                          LAMBDA next : runChunks(chunks, i + 1, env, next))))

\* runLLMOnMessages with what it leaves behind: whether it threw and the
\* requests it made (provider "none" stands for null)
runLLMOnMessagesWork(messages, env) ==
  runChunks(chunksOf(messages), 1, env,
            [decisions |-> <<>>, responsibilities |-> <<>>, provider |-> "none",
             failed |-> {}, calls |-> <<>>, threw |-> FALSE])

\* the LLMOutput in it
LLMOutputOf(w) ==
  [provider |-> w.provider, decisions |-> w.decisions,
   responsibilities |-> w.responsibilities]

runLLMOnMessages(messages, env) ==
  Bind(runLLMOnMessagesWork(messages, env), LAMBDA w : LLMOutputOf(w))

\* ------------------------------------------------------------------------
\* Inputs: transcripts and inference responses
\* ------------------------------------------------------------------------

Hdr(ts, sender, text) ==
  [header |-> TRUE, timestamp |-> ts, sender |-> sender, message_text |-> text]

Cont(text) ==
  [header |-> FALSE, timestamp |-> "", sender |-> "", message_text |-> text]

Ts1 == "2024-01-10T14:32:00.000Z"

Ts2 == "2024-01-10T14:33:00.000Z"

Ts3 == "2024-01-11T09:15:00.000Z"

Ts4 == "2024-01-11T09:16:00.000Z"

LineApproved == Hdr(Ts1, "Ann", "Approved: plan B")

LineFix == Hdr(Ts2, " Bob ", "I'll fix the build")

LineOk == Hdr(Ts2, "Cy", "ok")

LineRestated == Hdr(Ts3, "Bob", "approved plan b!")

LineFixAgain == Hdr(Ts4, "Bob", "i'll fix  the Build")

\* a first export, the same chat exported again with more messages (one of
\* them sent twice within the minute), and an export that starts with a stray
\* line and holds a two-line message
Transcripts ==
  { [file_sha256 |-> "fileA", lines |-> <<LineApproved, LineFix, LineOk>>],
    [file_sha256 |-> "fileB",
     lines |-> <<LineApproved, LineFix, LineOk, LineRestated, LineRestated>>],
    [file_sha256 |-> "fileC",
     lines |-> <<Cont("Messages are end-to-end encrypted"), LineRestated,
                 Cont("see the notes ")>>] }

\* the chats handed to the mergers directly: those of the transcripts and a
\* chat in which Bob repeats a commitment in other letter case and spacing
MergerTranscripts ==
  Transcripts \cup
  { [file_sha256 |-> "fileD",
     lines |-> <<LineApproved, LineFix, LineOk, LineRestated, LineFixAgain>>] }

ChatNames == {"Team"}

HashApproved == computeMessageHash(Ts1, "Ann", "Approved: plan B")

HashFix == computeMessageHash(Ts2, "Bob", "I'll fix the build")

HashOk == computeMessageHash(Ts2, "Cy", "ok")

\* validated external decisions (lib/llm.ts LLMDecision): one that cites the
\* message of a deterministic candidate plus a reaction to it, one whose only
\* evidence id was not a message of the batch, one about a reaction alone whose
\* title resembles a deterministic title
LLMEnriching ==
  [thread_key |-> "plan_b", title |-> "Plan B approved", status |-> "Final",
   confidence |-> 90, explanation |-> "The team approved plan B.",
   decided_at |-> Ts1, evidence_hashes |-> <<HashApproved, HashOk>>]

LLMUnresolved ==
  [thread_key |-> "budget", title |-> "Budget frozen", status |-> "Tentative",
   confidence |-> 55, explanation |-> "", decided_at |-> Ts2,
   evidence_hashes |-> <<"m007">>]

LLMSimilar ==
  [thread_key |-> "plan", title |-> "Team approved plan", status |-> "Final",
   confidence |-> 90, explanation |-> "Everyone agreed.", decided_at |-> Ts2,
   evidence_hashes |-> <<HashOk>>]

LLMDecisionPool == {LLMEnriching, LLMUnresolved, LLMSimilar}

\* validated external responsibilities (lib/llm.ts LLMResponsibility)
LLMRespEnriching ==
  [title |-> "Fix the build", owner |-> "Bob", due |-> "2024-01-12",
   description |-> "Bob repairs the build.", evidence_hash |-> HashFix]

LLMRespUnresolved ==
  [title |-> "Book a room", owner |-> "unassigned", due |-> "",
   description |-> "", evidence_hash |-> "m009"]

LLMResponsibilityPool == {LLMRespEnriching, LLMRespUnresolved}

HashRestated == computeMessageHash(Ts3, "Bob", "approved plan b!")

HashFixAgain == computeMessageHash(Ts4, "Bob", "i'll fix  the Build")

\* further validated candidates for direct calls of the mergers: a decision
\* that restates LLMEnriching under the same grouping key, a second decision
\* under the grouping key of LLMUnresolved, and a responsibility with a due
\* date whose owner and title are those of a deterministic candidate
LLMRestatement ==
  [thread_key |-> "plan_b", title |-> "Plan B confirmed", status |-> "Final",
   confidence |-> 95, explanation |-> "Bob confirmed plan B.",
   decided_at |-> Ts3, evidence_hashes |-> <<HashRestated>>]

LLMBudgetAgain ==
  [thread_key |-> "budget", title |-> "Budget frozen until March",
   status |-> "Final", confidence |-> 85, explanation |-> "",
   decided_at |-> Ts2, evidence_hashes |-> <<HashOk>>]

LLMRespDue ==
  [title |-> "I'll fix the build", owner |-> "Bob", due |-> "2024-01-15",
   description |-> "", evidence_hash |-> HashFixAgain]

MergerDecisionPool == LLMDecisionPool \cup {LLMRestatement, LLMBudgetAgain}

MergerResponsibilityPool == LLMResponsibilityPool \cup {LLMRespDue}

SeqsUpTo(S, n) == UNION {[1..k -> S] : k \in 0..n}

\* raw decisions and responsibilities as a provider writes them, with the
\* batch-local ids of the prompt: for the messages of the first export they
\* validate to the candidates above
RawDecision(thread_key, title, status, tenths, explanation, decided_at, ids) ==
  JObject([thread_key |-> JString(thread_key), title |-> JString(title),
           status |-> JString(status), confidence |-> JNumber(tenths),
           explanation |-> JString(explanation),
           decided_at |-> JString(decided_at),
           evidence_hashes |-> JArray([k \in 1..Len(ids) |-> JString(ids[k])])])

RawEnriching ==
  RawDecision("Plan B", "Plan B approved", "Final", 896,
              "The team approved plan B.", Ts1, <<"m000", "m002">>)

RawUnresolved ==
  RawDecision("budget", "Budget frozen", "Tentative", 550, "", Ts2, <<"m007">>)

RawSimilar ==
  RawDecision("plan", "Team approved plan", "Final", 900, "Everyone agreed.",
              Ts2, <<"m002">>)

RawDecisionPool == {RawEnriching, RawUnresolved, RawSimilar}

RawRespEnriching ==
  JObject([title |-> JString("Fix the build"), owner |-> JString("Bob"),
           due |-> JString("2024-01-12"),
           description |-> JString("Bob repairs the build."),
           evidence_hash |-> JString("m001")])

RawRespUnresolved ==
  JObject([title |-> JString("Book a room"), owner |-> JString(" "),
           due |-> JNull, evidence_hash |-> JString("m009")])

RawResponsibilityPool == {RawRespEnriching, RawRespUnresolved}

Reply(ds, rs) ==
  JObject([decisions |-> JArray(ds), responsibilities |-> JArray(rs)])

\* a decision that cites no message, a decision with a status outside the
\* contract, and a responsibility without evidence
RawNoEvidence ==
  RawDecision("launch", "Launch moved to May", "Tentative", 1200, "", Ts2, <<>>)

RawBadStatus ==
  RawDecision("launch", "Launch moved to May", "Maybe", 600, "", Ts2,
              <<"m000">>)

RawRespNoEvidence ==
  JObject([title |-> JString("Book a room"), owner |-> JString("Ann")])

\* the replies of the pools, and replies that test the validation
PoolReplies ==
  {Reply(d, r) : d \in SeqsUpTo(RawDecisionPool, 1),
                 r \in SeqsUpTo(RawResponsibilityPool, 1)}

OddReplies ==
  { Reply(<<RawNoEvidence>>, <<>>),
    Reply(<<RawBadStatus, JString("none")>>, <<RawRespNoEvidence>>),
    JObject([decisions |-> JString("none")]),
    JString("No decisions found.") }

\* the scripts of one provider for a chat sent in one chunk: what the first
\* request meets and, after a rate limit, what the second meets
RateLimited == HttpError(429, "Too Many Requests")

Failures ==
  {NoApiKey, FetchFailed, HttpError(500, "Internal Server Error"), RateLimited,
   EmptyContent, MalformedJSON}

ScriptsOver(outcomes) ==
  {<<a, a>> : a \in outcomes \ {RateLimited}}
  \cup {<<RateLimited, b>> : b \in outcomes}

\* the environments of runEnrichment: no provider is configured, the first
\* provider answers with a reply of the pools, or the first provider is rate
\* limited twice and the second answers
EnrichEnvironments ==
  {[openrouter |-> <<<<NoApiKey, NoApiKey>>>>, groq |-> <<<<NoApiKey, NoApiKey>>>>]}
  \cup {[openrouter |-> <<<<Completion(reply), Completion(reply)>>>>,
         groq |-> <<<<NoApiKey, NoApiKey>>>>] : reply \in PoolReplies}
  \cup {[openrouter |-> <<<<RateLimited, RateLimited>>>>,
         groq |-> <<<<Completion(Reply(<<RawEnriching>>, <<>>)),
                      Completion(Reply(<<RawEnriching>>, <<>>))>>>>]}

\* ------------------------------------------------------------------------
\* State
\* ------------------------------------------------------------------------

\* The tables of the store.  A table is the sequence of its rows in insertion
\* order and a row's id is its position; the two link tables are sets of pairs.
VARIABLES chats, chat_imports, messages, import_messages,
          decision_threads, decisions, decision_evidence, responsibilities

\* proc: each worker's position in the request it serves and that request's
\*       local variables;  requests: requests accepted so far;
\* hist: what the last completed request was and the store it started from and
\*       left (history, read by properties only);
\* mergeCall, mergeOut: arguments and results of a direct call of the mergers
VARIABLES proc, requests, hist, mergeCall, mergeOut

\* llmCall, llmOut: arguments and results of a direct call of runLLMOnMessages
\* and of the part of runEnrichment that follows it
VARIABLES llmCall, llmOut

\* fnCall, fnOut: the function called directly, its arguments and what it
\* returned
VARIABLES fnCall, fnOut

tables == <<chats, chat_imports, messages, import_messages,
            decision_threads, decisions, decision_evidence, responsibilities>>

vars == <<chats, chat_imports, messages, import_messages,
          decision_threads, decisions, decision_evidence, responsibilities,
          proc, requests, hist, mergeCall, mergeOut, llmCall, llmOut,
          fnCall, fnOut>>

EmptyResult == [items |-> <<>>, evidence |-> <<>>]

\* ------------------------------------------------------------------------
\* Direct calls of the mergers (lib/llmMerge.ts)
\* ------------------------------------------------------------------------

NotCalled == [called |-> FALSE, threw |-> FALSE, value |-> EmptyResult]

\* the deterministic results of a transcript, as runEnrichment builds them,
\* and a list of validated external candidates for one of the two mergers
MergeInit ==
  /\ mergeCall \in
       {[deterministic |-> extractDecisions(parseChat(t.lines)),
         llm |-> llm,
         deterministicResp |-> extractResponsibilities(parseChat(t.lines)),
         llmResp |-> <<>>] :
          t \in MergerTranscripts, llm \in SeqsUpTo(MergerDecisionPool, MaxLLM)}
       \cup
       {[deterministic |-> extractDecisions(parseChat(t.lines)),
         llm |-> <<>>,
         deterministicResp |-> extractResponsibilities(parseChat(t.lines)),
         llmResp |-> llmResp] :
          t \in MergerTranscripts,
          llmResp \in SeqsUpTo(MergerResponsibilityPool, MaxLLM)}
  /\ mergeOut = [decisions |-> NotCalled, responsibilities |-> NotCalled]

CallMergeDecisions ==
  /\ ~mergeOut.decisions.called
  /\ mergeOut' = [mergeOut EXCEPT !.decisions =
       IF mergeDecisionsThrows(mergeCall.deterministic, mergeCall.llm)
       THEN [called |-> TRUE, threw |-> TRUE, value |-> EmptyResult]
       ELSE [called |-> TRUE, threw |-> FALSE,
             value |-> mergeDecisions(mergeCall.deterministic, mergeCall.llm)]]
  /\ UNCHANGED <<tables, proc, requests, hist, mergeCall, llmCall, llmOut,
                 fnCall, fnOut>>

CallMergeResponsibilities ==
  /\ ~mergeOut.responsibilities.called
  /\ mergeOut' = [mergeOut EXCEPT !.responsibilities =
       [called |-> TRUE, threw |-> FALSE,
        value |-> mergeResponsibilities(mergeCall.deterministicResp,
                                        mergeCall.llmResp)]]
  /\ UNCHANGED <<tables, proc, requests, hist, mergeCall, llmCall, llmOut,
                 fnCall, fnOut>>

\* ------------------------------------------------------------------------
\* The store
\* ------------------------------------------------------------------------

Procs == {1, 2}

\* a missing row (data: null)
Null == 0

\* .maybeSingle(): the row when exactly one matches, otherwise no data
maybeSingle(ids) ==
  IF Cardinality(ids) = 1 THEN CHOOSE id \in ids : TRUE ELSE Null

ChatsByKey(key) == {id \in 1..Len(chats) : chats[id].chat_key = key}

MessageIds(chat_id, hashes) ==
  {id \in 1..Len(messages) :
     messages[id].chat_id = chat_id /\ messages[id].msg_sha256 \in hashes}

ThreadsByKey(chat_id, thread_key) ==
  {id \in 1..Len(decision_threads) :
     /\ decision_threads[id].chat_id = chat_id
     /\ decision_threads[id].thread_key = thread_key}

\* the lookup of persistDecisions asking for the version after the candidate's
DecisionsByNextVersion(thread_id, version_no) ==
  {id \in 1..Len(decisions) :
     /\ decisions[id].thread_id = thread_id
     /\ decisions[id].version_no = version_no + 1}

DecisionsByVersion(thread_id, version_no) ==
  {id \in 1..Len(decisions) :
     decisions[id].thread_id = thread_id /\ decisions[id].version_no = version_no}

\* the lookup of persistResponsibilities comparing the wrong column
ResponsibilitiesByStatus(chat_id, owner, task_text) ==
  {id \in 1..Len(responsibilities) :
     /\ responsibilities[id].chat_id = chat_id
     /\ responsibilities[id].owner = owner
     /\ responsibilities[id].status = task_text}

ResponsibilitiesByTask(chat_id, owner, task_text) ==
  {id \in 1..Len(responsibilities) :
     /\ responsibilities[id].chat_id = chat_id
     /\ responsibilities[id].owner = owner
     /\ responsibilities[id].task_text = task_text}

\* The schema is not part of the sources.  The uniqueness the core relies on
\* is on (chat, thread key) and on (thread, version number): an insert that
\* would break it is refused and returns no row.
ThreadInsertRefused(chat_id, thread_key) == ThreadsByKey(chat_id, thread_key) # {}

DecisionInsertRefused(thread_id, version_no) ==
  DecisionsByVersion(thread_id, version_no) # {}

\* what a request keeps in its local variables
IdleProc ==
  [pc |-> "idle", kind |-> "none", chat_id |-> Null, import_id |-> Null,
   file_sha256 |-> "", llmOutput |-> [provider |-> "none", decisions |-> <<>>,
                                      responsibilities |-> <<>>],
   decisionsBase |-> EmptyResult, responsibilitiesBase |-> EmptyResult,
   merged |-> FALSE, llm_used |-> "deterministic", messages |-> <<>>,
   decisions |-> EmptyResult, responsibilities |-> EmptyResult,
   i |-> 0, thread_id |-> Null, decision_id |-> Null,
   source_message_id |-> Null,
   atStart |-> [chats |-> <<>>, messages |-> <<>>, decision_threads |-> <<>>,
                decisions |-> <<>>, decision_evidence |-> {},
                responsibilities |-> <<>>]]

\* the record families of the data model
Families ==
  [chats |-> chats, messages |-> messages, decision_threads |-> decision_threads,
   decisions |-> decisions, decision_evidence |-> decision_evidence,
   responsibilities |-> responsibilities]

RECURSIVE upsertMessagesAll(_, _, _)
\* the upsert without ignoreDuplicates: every parsed message becomes a row
upsertMessagesAll(table, chat_id, parsed) ==
  IF parsed = <<>> THEN table
  ELSE upsertMessagesAll(
         Append(table, [chat_id |-> chat_id, msg_ts |-> Head(parsed).timestamp,
                        sender |-> Head(parsed).sender,
                        text |-> Head(parsed).message_text,
                        msg_sha256 |-> Head(parsed).message_hash]),
         chat_id, Tail(parsed))

RECURSIVE upsertMessages(_, _, _)
\* sync.ts lines 283-306: rows whose (chat_id, msg_sha256) is stored are skipped
upsertMessages(table, chat_id, parsed) ==
  IF parsed = <<>> THEN table
  ELSE LET m == Head(parsed)
           dup == \E id \in 1..Len(table) :
                    table[id].chat_id = chat_id /\ table[id].msg_sha256 = m.message_hash
       IN upsertMessages(
            IF dup THEN table
            ELSE Append(table, [chat_id |-> chat_id, msg_ts |-> m.timestamp,
                                sender |-> m.sender, text |-> m.message_text,
                                msg_sha256 |-> m.message_hash]),
            chat_id, Tail(parsed))

\* sync.ts lines 217-351, one import request up to the return of the sync
syncWhatsAppImport(p, chat_name, t) ==
  LET chat_key  == toLowerCase(trim(chat_name))
      found     == maybeSingle(ChatsByKey(chat_key))
      chats1    == IF found = Null
                   THEN Append(chats, [chat_key |-> chat_key, chat_name |-> chat_name])
                   ELSE chats
      chat_id   == IF found = Null THEN Len(chats1) ELSE found
      sameFile  == {id \in 1..Len(chat_imports) :
                      chat_imports[id].file_sha256 = t.file_sha256}
      imports1  == IF sameFile = {}
                   THEN Append(chat_imports,
                               [chat_id |-> chat_id, file_sha256 |-> t.file_sha256,
                                messages_parsed |-> 0, new_messages |-> 0,
                                duplicates_skipped |-> 0])
                   ELSE chat_imports
      import_id == IF sameFile = {} THEN Len(imports1)
                   ELSE maybeSingle({id \in sameFile :
                                       chat_imports[id].chat_id = chat_id})
      parsed    == parseChat(t.lines)
      messages1 == upsertMessages(messages, chat_id, parsed)
      inserted_messages == Len(messages1) - Len(messages)
      allHashes == {parsed[k].message_hash : k \in 1..Len(parsed)}
      linked    == {id \in 1..Len(messages1) :
                      /\ messages1[id].chat_id = chat_id
                      /\ messages1[id].msg_sha256 \in allHashes}
  IN /\ chats' = chats1
     /\ IF import_id = Null
        THEN \* "Failed to find or create chat_import": the request ends
             /\ UNCHANGED <<chat_imports, messages, import_messages>>
             /\ proc' = [proc EXCEPT ![p] = IdleProc]
        ELSE /\ chat_imports' =
                  [imports1 EXCEPT ![import_id] =
                     [@ EXCEPT !.messages_parsed = Len(parsed),
                               !.new_messages = inserted_messages,
                               !.duplicates_skipped = Len(parsed) - inserted_messages]]
             /\ messages' = messages1
             /\ import_messages' =
                  import_messages \cup {<<import_id, id>> : id \in linked}
             /\ proc' = [proc EXCEPT ![p] =
                  [IdleProc EXCEPT !.pc = "analyse", !.kind = "import",
                                   !.chat_id = chat_id, !.import_id = import_id,
                                   !.file_sha256 = t.file_sha256,
                                   !.atStart = Families]]

\* ------------------------------------------------------------------------
\* Requests (lib/orchestrate.ts) and the persistence loops
\* ------------------------------------------------------------------------

MessageInputOf(id) ==
  [sender |-> messages[id].sender, message_text |-> messages[id].text,
   message_hash |-> messages[id].msg_sha256, timestamp |-> messages[id].msg_ts]

\* The orders in which a query sorted by msg_ts may return the rows ids: rows
\* with equal timestamps come in an order the store chooses.
ChronologicalOrders(ids) ==
  LET n == Cardinality(ids)
  IN {q \in [1..n -> ids] :
        /\ \A a, b \in 1..n : a # b => q[a] # q[b]
        /\ \A k \in 1..(n - 1) :
             ~StrLess(messages[q[k + 1]].msg_ts, messages[q[k]].msg_ts)}

\* lines 274-335
fetchImportMessages(import_id) ==
  LET ids == {id \in 1..Len(messages) : <<import_id, id>> \in import_messages}
  IN {[k \in 1..Len(q) |-> MessageInputOf(q[k])] : q \in ChronologicalOrders(ids)}

\* lines 225-272
fetchChatMessages(chat_id) ==
  LET ids == {id \in 1..Len(messages) : messages[id].chat_id = chat_id}
  IN {[k \in 1..Len(q) |-> MessageInputOf(q[k])] : q \in ChronologicalOrders(ids)}

\* persistResponsibilities line 328, then the return of the request
StartResponsibilities(local) ==
  IF Len(local.responsibilities.items) = 0
  THEN [local EXCEPT !.pc = "done"]
  ELSE [local EXCEPT !.pc = "resp_resolve", !.i = 1]

\* persistDecisions line 222
StartDecisions(local) ==
  IF Len(local.decisions.items) = 0
  THEN StartResponsibilities(local)
  ELSE [local EXCEPT !.pc = "dec_find", !.i = 1]

\* "continue" and the end of the loop of persistDecisions
NextDecision(local) ==
  IF local.i < Len(local.decisions.items)
  THEN [local EXCEPT !.pc = "dec_find", !.i = local.i + 1]
  ELSE StartResponsibilities(local)

\* "continue" and the end of the loop of persistResponsibilities
NextResponsibility(local) ==
  IF local.i < Len(local.responsibilities.items)
  THEN [local EXCEPT !.pc = "resp_resolve", !.i = local.i + 1]
  ELSE [local EXCEPT !.pc = "done"]

\* POST /api/import/whatsapp accepts a transcript and syncs it
ImportRequest(p) ==
  /\ proc[p].pc = "idle"
  /\ Len(requests) < MaxRequests
  /\ \E chat_name \in ChatNames, t \in Transcripts :
       /\ syncWhatsAppImport(p, chat_name, t)
       /\ requests' = Append(requests, [kind |-> "import",
                                        file_sha256 |-> t.file_sha256])
  /\ UNCHANGED <<decision_threads, decisions, decision_evidence,
                 responsibilities, hist, mergeCall, mergeOut, llmCall, llmOut,
                 fnCall, fnOut>>

\* runAnalysisPipeline lines 65-94: fetch the import's messages and extract
runAnalysisPipeline(p) ==
  /\ proc[p].pc = "analyse"
  /\ LET linked == fetchImportMessages(proc[p].import_id)
         fetched == IF linked = {<<>>} THEN fetchChatMessages(proc[p].chat_id)
                    ELSE linked
     IN \E msgs \in fetched :
          proc' = [proc EXCEPT ![p] =
            IF msgs = <<>> THEN [@ EXCEPT !.pc = "done"]
            ELSE StartDecisions([@ EXCEPT
                   !.messages = msgs,
                   !.decisions = extractDecisions(msgs),
                   !.responsibilities = extractResponsibilities(msgs)])]
  /\ UNCHANGED <<tables, requests, hist, mergeCall, mergeOut, llmCall, llmOut,
                 fnCall, fnOut>>

\* runEnrichment lines 166-187: the baseline, the merge when a provider
\* supplied candidates, and the provider reported
enrichmentResult(msgs, llmOutput) ==
  LET decisionsBase == extractDecisions(msgs)
      responsibilitiesBase == extractResponsibilities(msgs)
      useLLM == /\ llmOutput.provider # "none"
                /\ \/ Len(llmOutput.decisions) > 0
                   \/ Len(llmOutput.responsibilities) > 0
  IN [merged |-> useLLM,
      threw |-> useLLM /\ mergeDecisionsThrows(decisionsBase,
                                               llmOutput.decisions),
      decisionsBase |-> decisionsBase,
      responsibilitiesBase |-> responsibilitiesBase,
      decisions |-> IF useLLM
                    THEN mergeDecisions(decisionsBase, llmOutput.decisions)
                    ELSE decisionsBase,
      responsibilities |->
        IF useLLM
        THEN mergeResponsibilities(responsibilitiesBase,
                                   llmOutput.responsibilities)
        ELSE responsibilitiesBase,
      llm_used |-> IF useLLM THEN llmOutput.provider ELSE "deterministic"]

\* POST /api/enrich, runEnrichment lines 149-187: fetch, extract the baseline,
\* take the inference result and merge.  An exception in the merger ends the
\* request with status 500.
runEnrichment(p) ==
  /\ proc[p].pc = "idle"
  /\ Len(requests) < MaxRequests
  /\ \E chat_id \in {1}, env \in EnrichEnvironments :
       \E msgs \in fetchChatMessages(chat_id) :
       \E llmOutput \in {runLLMOnMessages(msgs, env)} :
       \E r \in {enrichmentResult(msgs, llmOutput)} :
         LET started == [IdleProc EXCEPT
                           !.kind = "enrich", !.chat_id = chat_id,
                           !.messages = msgs, !.atStart = Families]
             local == [started EXCEPT
                         !.llmOutput = llmOutput,
                         !.decisionsBase = r.decisionsBase,
                         !.responsibilitiesBase = r.responsibilitiesBase,
                         !.merged = r.merged,
                         !.llm_used = r.llm_used,
                         !.decisions = r.decisions,
                         !.responsibilities = r.responsibilities]
         IN proc' = [proc EXCEPT ![p] =
              IF msgs = <<>> THEN [started EXCEPT !.pc = "done"]
              ELSE IF r.threw THEN IdleProc
              ELSE StartDecisions(local)]
  /\ requests' = Append(requests, [kind |-> "enrich", file_sha256 |-> ""])
  /\ UNCHANGED <<tables, hist, mergeCall, mergeOut, llmCall, llmOut,
                 fnCall, fnOut>>

\* the candidate the loop of persistDecisions is at
CurrentDecision(p) == proc[p].decisions.items[proc[p].i]

\* the candidate the loop of persistResponsibilities is at
CurrentResponsibility(p) == proc[p].responsibilities.items[proc[p].i]

\* persistDecisions lines 230-239: look the thread up
FindThread(p) ==
  /\ proc[p].pc = "dec_find"
  /\ LET threadRow == maybeSingle(ThreadsByKey(proc[p].chat_id,
                                               slugify(CurrentDecision(p).title)))
     IN proc' = [proc EXCEPT ![p] =
          IF threadRow = Null THEN [@ EXCEPT !.pc = "dec_thread"]
          ELSE [@ EXCEPT !.pc = "dec_check", !.thread_id = threadRow]]
  /\ UNCHANGED <<tables, requests, hist, mergeCall, mergeOut, llmCall, llmOut,
                 fnCall, fnOut>>

\* lines 241-252: create the thread; without a row the candidate is skipped
InsertThread(p) ==
  /\ proc[p].pc = "dec_thread"
  /\ LET thread_key == slugify(CurrentDecision(p).title)
     IN IF ThreadInsertRefused(proc[p].chat_id, thread_key)
        THEN /\ proc' = [proc EXCEPT ![p] = NextDecision(@)]
             /\ UNCHANGED decision_threads
        ELSE /\ decision_threads' =
                  Append(decision_threads,
                         [chat_id |-> proc[p].chat_id, thread_key |-> thread_key])
             /\ proc' = [proc EXCEPT ![p] =
                  [@ EXCEPT !.pc = "dec_check",
                            !.thread_id = Len(decision_threads) + 1]]
  /\ UNCHANGED <<chats, chat_imports, messages, import_messages, decisions,
                 decision_evidence, responsibilities, requests, hist,
                 mergeCall, mergeOut, llmCall, llmOut,
                 fnCall, fnOut>>

\* lines 254-262: skip the candidate when the thread has this version number
CheckVersion(p) ==
  /\ proc[p].pc = "dec_check"
  /\ LET existingDec == maybeSingle(DecisionsByVersion(proc[p].thread_id,
                                                       CurrentDecision(p).version))
     IN proc' = [proc EXCEPT ![p] =
          IF existingDec # Null THEN NextDecision(@)
          ELSE [@ EXCEPT !.pc = "dec_insert"]]
  /\ UNCHANGED <<tables, requests, hist, mergeCall, mergeOut, llmCall, llmOut,
                 fnCall, fnOut>>

\* lines 264-288: insert the decision row, then look at the evidence list
InsertDecision(p) ==
  /\ proc[p].pc = "dec_insert"
  /\ LET dec == CurrentDecision(p)
         hashes == EvidenceOr(proc[p].decisions.evidence, dec.id)
     IN IF DecisionInsertRefused(proc[p].thread_id, dec.version)
        THEN /\ proc' = [proc EXCEPT ![p] = NextDecision(@)]
             /\ UNCHANGED decisions
        ELSE /\ decisions' =
                  Append(decisions,
                         [thread_id |-> proc[p].thread_id,
                          version_no |-> dec.version,
                          status |-> dec.status,
                          confidence |-> dec.confidence,
                          decision_title |-> dec.title,
                          final_outcome |-> dec.explanation,
                          decided_at |-> dec.timestamp])
             /\ proc' = [proc EXCEPT ![p] =
                  IF Len(hashes) = 0 THEN NextDecision(@)
                  ELSE [@ EXCEPT !.pc = "dec_evidence",
                                 !.decision_id = Len(decisions) + 1]]
  /\ UNCHANGED <<chats, chat_imports, messages, import_messages,
                 decision_threads, decision_evidence, responsibilities,
                 requests, hist, mergeCall, mergeOut, llmCall, llmOut,
                 fnCall, fnOut>>

\* lines 290-310: resolve the hashes to messages of the chat and link them
InsertEvidence(p) ==
  /\ proc[p].pc = "dec_evidence"
  /\ LET hashes == EvidenceOr(proc[p].decisions.evidence, CurrentDecision(p).id)
         msgRows == MessageIds(proc[p].chat_id, SeqToSet(hashes))
     IN decision_evidence' =
          decision_evidence \cup {<<proc[p].decision_id, id>> : id \in msgRows}
  /\ proc' = [proc EXCEPT ![p] = NextDecision(@)]
  /\ UNCHANGED <<chats, chat_imports, messages, import_messages,
                 decision_threads, decisions, responsibilities,
                 requests, hist, mergeCall, mergeOut, llmCall, llmOut,
                 fnCall, fnOut>>

\* persistResponsibilities line 348
taskText(resp) ==
  resp.title \o (IF resp.description # "" THEN " " \o EMDASH \o " " \o resp.description
                 ELSE "")

\* lines 332-345: resolve the first evidence hash
ResolveSource(p) ==
  /\ proc[p].pc = "resp_resolve"
  /\ LET hashes == EvidenceOr(proc[p].responsibilities.evidence,
                              CurrentResponsibility(p).id)
     IN proc' = [proc EXCEPT ![p] =
          [@ EXCEPT !.pc = "resp_check",
                    !.source_message_id =
                       IF Len(hashes) > 0
                       THEN maybeSingle(MessageIds(proc[p].chat_id, {hashes[1]}))
                       ELSE Null]]
  /\ UNCHANGED <<tables, requests, hist, mergeCall, mergeOut, llmCall, llmOut,
                 fnCall, fnOut>>

\* lines 347-359: skip the candidate when (chat, owner, task text) is stored
CheckResponsibility(p) ==
  /\ proc[p].pc = "resp_check"
  /\ LET resp == CurrentResponsibility(p)
         existing == maybeSingle(ResponsibilitiesByTask(proc[p].chat_id, resp.owner,
                                                        taskText(resp)))
     IN proc' = [proc EXCEPT ![p] =
          IF existing # Null THEN NextResponsibility(@)
          ELSE [@ EXCEPT !.pc = "resp_insert"]]
  /\ UNCHANGED <<tables, requests, hist, mergeCall, mergeOut, llmCall, llmOut,
                 fnCall, fnOut>>

\* lines 361-370
InsertResponsibility(p) ==
  /\ proc[p].pc = "resp_insert"
  /\ LET resp == CurrentResponsibility(p)
     IN responsibilities' =
          Append(responsibilities,
                 [chat_id |-> proc[p].chat_id, owner |-> resp.owner,
                  task_text |-> taskText(resp), status |-> resp.status,
                  due_date |-> Null,
                  source_message_id |-> proc[p].source_message_id])
  /\ proc' = [proc EXCEPT ![p] = NextResponsibility(@)]
  /\ UNCHANGED <<chats, chat_imports, messages, import_messages,
                 decision_threads, decisions, decision_evidence,
                 requests, hist, mergeCall, mergeOut, llmCall, llmOut,
                 fnCall, fnOut>>

\* the request returns its counts to the caller
Finish(p) ==
  /\ proc[p].pc = "done"
  /\ hist' = [hist EXCEPT !.kind = proc[p].kind,
                          !.chat_id = proc[p].chat_id,
                          !.file_sha256 = proc[p].file_sha256,
                          !.after = Families]
  /\ proc' = [proc EXCEPT ![p] = IdleProc]
  /\ UNCHANGED <<tables, requests, mergeCall, mergeOut, llmCall, llmOut,
                 fnCall, fnOut>>

\* The server process stops in the middle of a request: the rows written so
\* far stay, the local variables are lost.  hist keeps which decision row was
\* left between its insert and the insert of its evidence rows.
Crash(p) ==
  /\ proc[p].pc \notin {"idle", "done"}
  /\ hist' = [hist EXCEPT !.interrupted =
       IF proc[p].pc = "dec_evidence"
       THEN @ \cup {[kind |-> proc[p].kind, chat_id |-> proc[p].chat_id,
                     file_sha256 |-> proc[p].file_sha256,
                     decision_id |-> proc[p].decision_id]}
       ELSE @]
  /\ proc' = [proc EXCEPT ![p] = IdleProc]
  /\ UNCHANGED <<tables, requests, mergeCall, mergeOut, llmCall, llmOut,
                 fnCall, fnOut>>

\* no direct call of runLLMOnMessages
NoLLMWork ==
  [decisions |-> <<>>, responsibilities |-> <<>>, provider |-> "none",
   failed |-> {}, calls |-> <<>>, threw |-> FALSE]

NoEnrichment ==
  [merged |-> FALSE, threw |-> FALSE, decisionsBase |-> EmptyResult,
   responsibilitiesBase |-> EmptyResult, decisions |-> EmptyResult,
   responsibilities |-> EmptyResult, llm_used |-> "deterministic"]

LLMIdle ==
  /\ llmCall = [messages |-> <<>>,
                env |-> [openrouter |-> <<>>, groq |-> <<>>]]
  /\ llmOut = [called |-> FALSE, work |-> NoLLMWork, handed |-> FALSE,
               result |-> NoEnrichment]

\* the message windows handed to runLLMOnMessages directly: the messages of a
\* chat as the store returns them, each once
LLMBatches ==
  {msgs \in {parseChat(t.lines) : t \in MergerTranscripts} :
     \A a, b \in 1..Len(msgs) :
       a # b => msgs[a].message_hash # msgs[b].message_hash}

\* every script of the first provider over the failures and the replies, and
\* of the second provider over the failures and two replies
LLMEnvironments ==
  {[openrouter |-> <<o>>, groq |-> <<g>>] :
     o \in ScriptsOver(Failures \cup {Completion(reply) :
                                        reply \in PoolReplies \cup OddReplies}),
     g \in ScriptsOver(Failures \cup {Completion(Reply(<<RawEnriching>>, <<>>)),
                                      Completion(Reply(<<>>, <<>>))})}

LLMInit ==
  /\ llmCall \in {[messages |-> msgs, env |-> env] :
                    msgs \in LLMBatches, env \in LLMEnvironments}
  /\ llmOut = [called |-> FALSE, work |-> NoLLMWork, handed |-> FALSE,
               result |-> NoEnrichment]

\* runEnrichment line 176
CallRunLLMOnMessages ==
  /\ ~llmOut.called
  /\ llmOut' = [llmOut EXCEPT
       !.called = TRUE,
       !.work = runLLMOnMessagesWork(llmCall.messages, llmCall.env)]
  /\ UNCHANGED <<tables, proc, requests, hist, mergeCall, mergeOut, llmCall,
                 fnCall, fnOut>>

\* runEnrichment lines 177-187, after runLLMOnMessages returned
MergeLLMOutput ==
  /\ llmOut.called /\ ~llmOut.work.threw /\ ~llmOut.handed
  /\ \E llmOutput \in {LLMOutputOf(llmOut.work)} :
       llmOut' = [llmOut EXCEPT
         !.handed = TRUE,
         !.result = enrichmentResult(llmCall.messages, llmOutput)]
  /\ UNCHANGED <<tables, proc, requests, hist, mergeCall, mergeOut, llmCall,
                 fnCall, fnOut>>

\* no direct call of a function
FnIdle ==
  /\ fnCall = [fn |-> "none"]
  /\ fnOut = [called |-> FALSE]

StoreInit ==
  /\ chats = <<>> /\ chat_imports = <<>> /\ messages = <<>>
  /\ import_messages = {} /\ decision_threads = <<>> /\ decisions = <<>>
  /\ decision_evidence = {} /\ responsibilities = <<>>
  /\ proc = [p \in Procs |-> IdleProc]
  /\ requests = <<>>
  /\ hist = [kind |-> "none", chat_id |-> Null, file_sha256 |-> "",
             after |-> IdleProc.atStart, interrupted |-> {}]

Init ==
  /\ StoreInit
  /\ mergeCall = [deterministic |-> EmptyResult, llm |-> <<>>,
                  deterministicResp |-> EmptyResult, llmResp |-> <<>>]
  /\ mergeOut = [decisions |-> NotCalled, responsibilities |-> NotCalled]
  /\ LLMIdle
  /\ FnIdle

Step(p) ==
  \/ ImportRequest(p)
  \/ runAnalysisPipeline(p)
  \/ runEnrichment(p)
  \/ FindThread(p)
  \/ InsertThread(p)
  \/ CheckVersion(p)
  \/ InsertDecision(p)
  \/ InsertEvidence(p)
  \/ ResolveSource(p)
  \/ CheckResponsibility(p)
  \/ InsertResponsibility(p)
  \/ Finish(p)

\* one request at a time
Next == Step(1)

Spec == Init /\ [][Next]_vars

\* two requests served at once, their store operations interleaved
NextConcurrent == \E p \in Procs : Step(p)

SpecConcurrent == Init /\ [][NextConcurrent]_vars

\* one request at a time, with stops of the server process
NextCrash == Step(1) \/ Crash(1)

SpecCrash == Init /\ [][NextCrash]_vars

\* direct calls of the mergers on the results of the transcripts
InitMerge == StoreInit /\ MergeInit /\ LLMIdle /\ FnIdle

NextMerge == CallMergeDecisions \/ CallMergeResponsibilities

SpecMerge == InitMerge /\ [][NextMerge]_vars

\* direct calls of runLLMOnMessages, each followed by the merge of
\* runEnrichment, on the message windows and every provider environment
InitLLM ==
  /\ StoreInit
  /\ mergeCall = [deterministic |-> EmptyResult, llm |-> <<>>,
                  deterministicResp |-> EmptyResult, llmResp |-> <<>>]
  /\ mergeOut = [decisions |-> NotCalled, responsibilities |-> NotCalled]
  /\ LLMInit
  /\ FnIdle

NextLLM == CallRunLLMOnMessages \/ MergeLLMOutput

SpecLLM == InitLLM /\ [][NextLLM]_vars

\* ------------------------------------------------------------------------
\* Direct calls of single functions (lib/llm.ts, lib/parser.ts,
\* lib/decisionEngine.ts)
\* ------------------------------------------------------------------------

\* x without its field name
Without(x, name) ==
  JObject([f \in DOMAIN x.fields \ {name} |-> x.fields[f]])

\* x with its field name set to v
With(x, name, v) == JObject([x.fields EXCEPT ![name] = v])

\* raw decision items: three that meet the contract (one of them cites no
\* message) and one that misses it for each test of lines 191-204
RawDecisionItems ==
  { RawEnriching, RawSimilar, RawNoEvidence,
    JNull, JString("none"), JArray(<<RawEnriching>>),
    Without(RawEnriching, "thread_key"),
    With(RawEnriching, "thread_key", JString(" ")),
    With(RawEnriching, "title", JNumber(10)),
    With(RawEnriching, "title", JString("  ")),
    RawBadStatus,
    With(RawEnriching, "confidence", JString("90")),
    Without(RawEnriching, "decided_at"),
    With(RawEnriching, "evidence_hashes", JString("m000")) }

\* raw responsibility items: two that meet the contract and one that misses
\* it for each test of lines 225-234
RawResponsibilityItems ==
  { RawRespEnriching, RawRespUnresolved,
    JNull, JNumber(10),
    Without(RawRespEnriching, "title"),
    With(RawRespEnriching, "title", JString(" ")),
    RawRespNoEvidence,
    With(RawRespEnriching, "evidence_hash", JString("")) }

\* the parsed replies handed to validateLLMResult
RawReplies ==
  {Reply(ds, <<RawRespEnriching>>) : ds \in SeqsUpTo(RawDecisionItems, MaxLLM)}
  \cup {Reply(<<RawSimilar>>, rs) : rs \in SeqsUpTo(RawResponsibilityItems, MaxLLM)}
  \cup { JNull, JString("No decisions found."), JNumber(10),
         JArray(<<RawEnriching>>),
         JObject([decisions |-> JString("none"),
                  responsibilities |-> JArray(<<RawRespEnriching>>)]),
         JObject([decisions |-> JArray(<<RawEnriching>>)]) }

\* the table of batch-local ids of the first export
FirstExportIds == buildPrompt(parseChat(<<LineApproved, LineFix, LineOk>>)).idToHash

ValidateInit ==
  /\ fnCall \in {[fn |-> "validateLLMResult", raw |-> raw,
                   idToHash |-> FirstExportIds] : raw \in RawReplies}
  /\ fnOut = [called |-> FALSE]

\* callOpenRouter line 330, callGroq line 366
CallValidateLLMResult ==
  /\ fnCall.fn = "validateLLMResult" /\ ~fnOut.called
  /\ fnOut' = [called |-> TRUE,
               value |-> validateLLMResult(fnCall.raw, fnCall.idToHash)]
  /\ UNCHANGED <<tables, proc, requests, hist, mergeCall, mergeOut, llmCall,
                 llmOut, fnCall>>

\* the message a header line and the lines that follow it parse to
MessageOf(lines) == parseChat(lines)[1]

\* the messages handed to the extractors: one with a final trigger, one with
\* a trigger of every tier, one with a tentative trigger, one with the option
\* pattern alone, two with none, one whose first line repeats a tentative
\* message and whose second line holds a final trigger; then a
\* self-commitment, a delegation, the same delegation followed by a line in
\* the first person, an idiomatic phrase, a gated "please" and a gated
\* "deadline"
ScanMessages ==
  { MessageOf(<<LineApproved>>),
    MessageOf(<<Hdr(Ts2, "Bob", "We decided: let's go with option B")>>),
    MessageOf(<<Hdr(Ts2, "Cy", "I suggest plan C")>>),
    MessageOf(<<Hdr(Ts3, "Ann", "Option B")>>),
    MessageOf(<<LineOk>>),
    MessageOf(<<Hdr(Ts3, "Cy", "two options b and c")>>),
    MessageOf(<<Hdr(Ts4, "Bob", "I suggest plan C"), Cont("APPROVED")>>),
    MessageOf(<<Hdr(Ts3, " Bob ", "I'll send the report by Friday")>>),
    MessageOf(<<Hdr(Ts3, "Ann", "Can you send the report?")>>),
    MessageOf(<<Hdr(Ts4, "Cy", "Can you send the report?"),
                Cont("Let me know")>>),
    MessageOf(<<Hdr(Ts4, "Bob", "Will do")>>),
    MessageOf(<<Hdr(Ts4, "Ann", "Please review the draft")>>),
    MessageOf(<<Hdr(Ts4, "Cy", "The deadline is before Monday")>>) }

ExtractInit ==
  /\ fnCall \in {[fn |-> "extract", messages |-> msgs] :
                   msgs \in SeqsUpTo(ScanMessages, MaxMessages)}
  /\ fnOut = [called |-> FALSE]

\* runAnalysisPipeline and runEnrichment: the two scans of one message list
CallExtractors ==
  /\ fnCall.fn = "extract" /\ ~fnOut.called
  /\ fnOut' = [called |-> TRUE,
               decisions |-> extractDecisions(fnCall.messages),
               responsibilities |-> extractResponsibilities(fnCall.messages)]
  /\ UNCHANGED <<tables, proc, requests, hist, mergeCall, mergeOut, llmCall,
                 llmOut, fnCall>>

\* the lines handed to parseChat: two messages with a sender, a line of the
\* application itself (no sender), and two lines without a header, one empty
ParseChatLines ==
  { LineApproved, LineFix, Hdr(Ts3, "", "Cy joined using this group's invite link"),
    Cont("see the notes "), Cont("") }

ParseInit ==
  /\ fnCall \in {[fn |-> "parseChat", lines |-> lines] :
                   lines \in SeqsUpTo(ParseChatLines, MaxLines)}
  /\ fnOut = [called |-> FALSE]

\* syncWhatsAppChat: parseChat(content)
CallParseChat ==
  /\ fnCall.fn = "parseChat" /\ ~fnOut.called
  /\ fnOut' = [called |-> TRUE, value |-> parseChat(fnCall.lines)]
  /\ UNCHANGED <<tables, proc, requests, hist, mergeCall, mergeOut, llmCall,
                 llmOut, fnCall>>

\* the (timestamp, sender, body) triples handed to computeMessageHash: among
\* them senders and bodies that differ in surrounding white space, in white
\* space at the end of a line and in the style of the line ending, and
\* bodies that differ in letter case and in inner spacing
HashTriples ==
  {[timestamp |-> ts, sender |-> sender, message_text |-> text] :
     ts \in {Ts1, Ts2},
     sender \in {"Bob", " Bob ", "Ann", "system"},
     text \in {"ok", "ok ", "Ok", "ok\nthen", "ok \r\nthen", "ok  then"}}

HashInit ==
  /\ fnCall \in {[fn |-> "computeMessageHash", first |-> a, second |-> b] :
                   a \in HashTriples, b \in HashTriples}
  /\ fnOut = [called |-> FALSE]

\* commitCurrent on two messages, on the first of them twice
CallComputeMessageHash ==
  /\ fnCall.fn = "computeMessageHash" /\ ~fnOut.called
  /\ fnOut' = [called |-> TRUE,
               first |-> computeMessageHash(fnCall.first.timestamp,
                                            fnCall.first.sender,
                                            fnCall.first.message_text),
               again |-> computeMessageHash(fnCall.first.timestamp,
                                            fnCall.first.sender,
                                            fnCall.first.message_text),
               second |-> computeMessageHash(fnCall.second.timestamp,
                                             fnCall.second.sender,
                                             fnCall.second.message_text)]
  /\ UNCHANGED <<tables, proc, requests, hist, mergeCall, mergeOut, llmCall,
                 llmOut, fnCall>>

\* what one attempt of withRetry can meet: a rate limit, an HTTP 500 whose
\* body mentions a 429, a rejected fetch, a completion
AttemptOutcomes ==
  { RateLimited, HttpError(500, "upstream answered 429"), FetchFailed,
    Completion(Reply(<<RawEnriching>>, <<>>)) }

\* withRetry with every number of attempts up to MaxAttempts (callWithFallback
\* passes 2, the default is 4) and every script of that length
RetryInit ==
  /\ fnCall \in {[fn |-> "withRetry", provider |-> provider, script |-> script,
                   maxAttempts |-> Len(script)] :
                   provider \in {"openrouter", "groq"},
                   script \in SeqsUpTo(AttemptOutcomes, MaxAttempts) \ {<<>>}}
  /\ fnOut = [called |-> FALSE]

\* callWithFallback lines 385 and 398
CallWithRetry ==
  /\ fnCall.fn = "withRetry" /\ ~fnOut.called
  /\ fnOut' = [called |-> TRUE,
               value |-> withRetry(fnCall.provider, fnCall.script,
                                   FirstExportIds, 0, fnCall.maxAttempts)]
  /\ UNCHANGED <<tables, proc, requests, hist, mergeCall, mergeOut, llmCall,
                 llmOut, fnCall>>

InitFn ==
  /\ StoreInit
  /\ mergeCall = [deterministic |-> EmptyResult, llm |-> <<>>,
                  deterministicResp |-> EmptyResult, llmResp |-> <<>>]
  /\ mergeOut = [decisions |-> NotCalled, responsibilities |-> NotCalled]
  /\ LLMIdle
  /\ \/ ValidateInit
     \/ ExtractInit
     \/ ParseInit
     \/ HashInit
     \/ RetryInit

NextFn ==
  \/ CallValidateLLMResult
  \/ CallExtractors
  \/ CallParseChat
  \/ CallComputeMessageHash
  \/ CallWithRetry

SpecFn == InitFn /\ [][NextFn]_vars

\* ------------------------------------------------------------------------
\* runLLMOnMessages step by step (lib/llm.ts 437-476)
\* ------------------------------------------------------------------------

\* a chat of n short messages in the order they were sent
BatchOf(n) ==
  [k \in 1..n |->
     [sender |-> "Ann", timestamp |-> Ts1,
      message_text |-> "note " \o NatToString(k),
      message_hash |-> computeMessageHash(Ts1, "Ann", "note " \o NatToString(k))]]

\* the sizes of the chats: the threshold, one message more (three full chunks
\* and one of a single message more than a hundred), and sizes that leave a
\* single message for the last of up to MaxChunks chunks
BatchSizes ==
  {SINGLE_CALL_THRESHOLD, SINGLE_CALL_THRESHOLD + 1}
  \cup {k * LLM_CHUNK_SIZE + 1 : k \in 4..(MaxChunks - 1)}

ChunkedBatches == {BatchOf(n) : n \in BatchSizes}

OpenRouterAnswer == Completion(Reply(<<RawEnriching>>, <<RawRespEnriching>>))

GroqAnswer == Completion(Reply(<<RawSimilar>>, <<>>))

\* what the two providers meet for one chunk: the first answers at once; it
\* answers after one rate limit; it is rate limited twice, or fails
\* otherwise, and the second answers; both fail; the second fails where the
\* first would answer
ChunkBehaviours ==
  { [openrouter |-> <<OpenRouterAnswer, OpenRouterAnswer>>,
     groq |-> <<GroqAnswer, GroqAnswer>>],
    [openrouter |-> <<RateLimited, OpenRouterAnswer>>,
     groq |-> <<GroqAnswer, GroqAnswer>>],
    [openrouter |-> <<RateLimited, RateLimited>>,
     groq |-> <<GroqAnswer, GroqAnswer>>],
    [openrouter |-> <<FetchFailed, FetchFailed>>,
     groq |-> <<RateLimited, GroqAnswer>>],
    [openrouter |-> <<EmptyContent, EmptyContent>>,
     groq |-> <<MalformedJSON, MalformedJSON>>],
    [openrouter |-> <<OpenRouterAnswer, OpenRouterAnswer>>,
     groq |-> <<RateLimited, RateLimited>>] }

\* the environments of a chunked run: a behaviour for each of the first
\* ScriptedChunks chunks, the last of them serving every further chunk
ChunkEnvironments ==
  {[openrouter |-> [k \in 1..ScriptedChunks |-> b[k].openrouter],
    groq |-> [k \in 1..ScriptedChunks |-> b[k].groq]] :
     b \in [1..ScriptedChunks -> ChunkBehaviours]}

\* fnOut of a run: pc is the position in the loop, i the chunk at hand
\* (from 1), acc what lines 440-445 declare, log the sleeps and requests made
InitChunks ==
  /\ StoreInit
  /\ mergeCall = [deterministic |-> EmptyResult, llm |-> <<>>,
                  deterministicResp |-> EmptyResult, llmResp |-> <<>>]
  /\ mergeOut = [decisions |-> NotCalled, responsibilities |-> NotCalled]
  /\ LLMIdle
  /\ fnCall \in {[fn |-> "runLLMOnMessages", messages |-> msgs, env |-> env] :
                   msgs \in ChunkedBatches, env \in ChunkEnvironments}
  /\ fnOut = [called |-> FALSE, pc |-> "head", i |-> 1, log |-> <<>>,
              acc |-> [decisions |-> <<>>, responsibilities |-> <<>>,
                       provider |-> "none", failed |-> {}, calls |-> <<>>,
                       threw |-> FALSE]]

\* lines 455-459: the loop condition, the break and the test before the sleep
ChunkLoopHead ==
  /\ fnOut.pc = "head"
  /\ \E chunks \in {chunksOf(fnCall.messages)} :
       fnOut' = [fnOut EXCEPT !.pc =
         IF fnOut.i > Len(chunks) \/ Cardinality(fnOut.acc.failed) >= 2
         THEN "return"
         ELSE IF fnOut.i > 1 THEN "sleep" ELSE "call"]
  /\ UNCHANGED <<tables, proc, requests, hist, mergeCall, mergeOut, llmCall,
                 llmOut, fnCall>>

\* line 459: await sleep(INTER_CHUNK_DELAY_MS)
InterChunkDelay ==
  /\ fnOut.pc = "sleep"
  /\ fnOut' = [fnOut EXCEPT
       !.pc = "call",
       !.log = Append(@, [kind |-> "sleep", chunk |-> fnOut.i,
                          provider |-> "none"])]
  /\ UNCHANGED <<tables, proc, requests, hist, mergeCall, mergeOut, llmCall,
                 llmOut, fnCall>>

\* lines 461-468: the prompt of the chunk, callWithFallback and the results
\* taken up
CallChunk ==
  /\ fnOut.pc = "call"
  /\ \E idToHash \in {buildPrompt(chunksOf(fnCall.messages)[fnOut.i]).idToHash} :
     \E outcome \in {callWithFallback(
                        [openrouter |-> ScriptFor(fnCall.env.openrouter, fnOut.i),
                         groq |-> ScriptFor(fnCall.env.groq, fnOut.i)],
                        fnOut.acc.failed, idToHash)} :
       fnOut' = [fnOut EXCEPT
         !.pc = "head",
         !.i = @ + 1,
         !.acc = accumulate(@, outcome),
         !.log = @ \o [k \in 1..Len(outcome.calls) |->
                         [kind |-> "call", chunk |-> fnOut.i,
                          provider |-> outcome.calls[k]]]]
  /\ UNCHANGED <<tables, proc, requests, hist, mergeCall, mergeOut, llmCall,
                 llmOut, fnCall>>

\* lines 471-475
ReturnLLMOutput ==
  /\ fnOut.pc = "return"
  /\ fnOut' = [fnOut EXCEPT !.pc = "done", !.called = TRUE]
  /\ UNCHANGED <<tables, proc, requests, hist, mergeCall, mergeOut, llmCall,
                 llmOut, fnCall>>

NextChunks ==
  \/ ChunkLoopHead
  \/ InterChunkDelay
  \/ CallChunk
  \/ ReturnLLMOutput

\* one run of runLLMOnMessages on chats around and above the single-call
\* threshold, a step at a time
SpecChunks == InitChunks /\ [][NextChunks]_vars

\* ------------------------------------------------------------------------
\* Properties of the mergers (SpecMerge)
\* ------------------------------------------------------------------------

HashesOf(result, id) == SeqToSet(EvidenceOr(result.evidence, id))

\* the deterministic candidate an external decision is matched to, if any
MatchOf(llmDec) == firstMatch(mergeCall.deterministic, llmDec.evidence_hashes)

DecisionsReturned == mergeOut.decisions.called /\ ~mergeOut.decisions.threw

\* C7: when mergeDecisions matches an external decision to a deterministic
\* candidate through a shared evidence hash, the output holds a candidate
\* whose evidence contains every hash of the deterministic candidate and every
\* hash of the external decision.
C7_MergeUnion ==
  DecisionsReturned =>
    \A k \in 1..Len(mergeCall.llm) :
      LET llmDec == mergeCall.llm[k]
      IN MatchOf(llmDec) # Undefined =>
           \E id \in SeqToSet(IdsOf(mergeOut.decisions.value.items)) :
             HashesOf(mergeCall.deterministic, MatchOf(llmDec))
               \cup SeqToSet(llmDec.evidence_hashes)
               \subseteq HashesOf(mergeOut.decisions.value, id)

\* the deterministic candidates no external decision shares a hash with
Unmatched ==
  {i \in 1..Len(mergeCall.deterministic.items) :
     \A k \in 1..Len(mergeCall.llm) :
       HashesOf(mergeCall.deterministic, mergeCall.deterministic.items[i].id)
         \cap SeqToSet(mergeCall.llm[k].evidence_hashes) = {}}

\* C8: every deterministic candidate that shares no evidence hash with any
\* external decision is in the output of mergeDecisions with the same fields
\* and the same evidence list.
C8_UnmatchedKept ==
  DecisionsReturned =>
    \A i \in Unmatched :
      LET d == mergeCall.deterministic.items[i]
      IN /\ \E j \in 1..Len(mergeOut.decisions.value.items) :
              mergeOut.decisions.value.items[j] = d
         /\ EvidenceOr(mergeOut.decisions.value.evidence, d.id)
              = EvidenceOr(mergeCall.deterministic.evidence, d.id)

\* C10: merging an empty external list returns the deterministic result
\* unchanged, for decisions and for responsibilities.
C10_EmptyMergeIdentity ==
  /\ (mergeOut.decisions.called /\ mergeCall.llm = <<>>) =>
        /\ ~mergeOut.decisions.threw
        /\ mergeOut.decisions.value = mergeCall.deterministic
  /\ (mergeOut.responsibilities.called /\ mergeCall.llmResp = <<>>) =>
        mergeOut.responsibilities.value = mergeCall.deterministicResp

\* both mergers were called with empty external lists on a deterministic result
\* that holds two decisions with near-duplicate titles and a responsibility
C10_Witness ==
  /\ mergeOut.decisions.called /\ mergeCall.llm = <<>>
  /\ mergeOut.responsibilities.called /\ mergeCall.llmResp = <<>>
  /\ \E i, j \in 1..Len(mergeCall.deterministic.items) :
       /\ i # j
       /\ titlesAreDuplicates(mergeCall.deterministic.items[i].title,
                              mergeCall.deterministic.items[j].title)
  /\ Len(mergeCall.deterministicResp.items) > 0
  /\ mergeOut.decisions.value.items = mergeCall.deterministic.items

\* ------------------------------------------------------------------------
\* Properties of the store (Spec, SpecConcurrent, SpecCrash)
\* ------------------------------------------------------------------------

\* no request is between two store operations
Quiescent == \A p \in Procs : proc[p].pc \in {"idle", "done"}

EvidenceOf(fam, decision_id) ==
  {e[2] : e \in {x \in fam.decision_evidence : x[1] = decision_id}}

\* C1: once the persistence calls have returned, every decision row has at
\* least one decision_evidence row and every responsibility row has a resolved
\* source message (so a candidate none of whose hashes resolves left no row).
C1_EvidenceMandate ==
  Quiescent =>
    /\ \A d \in 1..Len(decisions) : EvidenceOf(Families, d) # {}
    /\ \A r \in 1..Len(responsibilities) :
         responsibilities[r].source_message_id # Null

\* request p runs the ingestion of the transcript and chat that the request
\* completed just before it ingested
SecondRun(p) ==
  /\ proc[p].kind = "import" /\ proc[p].pc # "idle"
  /\ hist.kind = "import"
  /\ hist.file_sha256 = proc[p].file_sha256
  /\ hist.chat_id = proc[p].chat_id

ThreadsIn(fam, chat_id, thread_key) ==
  {t \in 1..Len(fam.decision_threads) :
     /\ fam.decision_threads[t].chat_id = chat_id
     /\ fam.decision_threads[t].thread_key = thread_key}

VersionsIn(fam, thread_id) ==
  {d \in 1..Len(fam.decisions) : fam.decisions[d].thread_id = thread_id}

LatestIn(fam, thread_id) ==
  CHOOSE d \in VersionsIn(fam, thread_id) :
    \A e \in VersionsIn(fam, thread_id) :
      fam.decisions[e].version_no <= fam.decisions[d].version_no

\* candidate i of request p is the only candidate of its pass for its thread
\* key, and the thread had a version when the request started
RevisitsThread(p, i) ==
  LET items == proc[p].decisions.items
      key == slugify(items[i].title)
      threads == ThreadsIn(proc[p].atStart, proc[p].chat_id, key)
  IN /\ \A j \in 1..Len(items) : slugify(items[j].title) = key => j = i
     /\ \E t \in threads : VersionsIn(proc[p].atStart, t) # {}

DiffersFromLatest(p, i) ==
  LET c == proc[p].decisions.items[i]
      t == CHOOSE t \in ThreadsIn(proc[p].atStart, proc[p].chat_id,
                                  slugify(c.title)) : TRUE
      latest == proc[p].atStart.decisions[LatestIn(proc[p].atStart, t)]
  IN c.title # latest.decision_title \/ c.explanation # latest.final_outcome

\* C5: when a persistence pass has handled a candidate whose thread already
\* had a version, then, if the candidate's title or outcome differs from the
\* latest version, the thread has a new version numbered latest+1 carrying the
\* candidate and still has the prior versions; if they are equal the thread's
\* versions are unchanged.
C5_VersionBump ==
  \A p \in Procs :
    proc[p].pc = "done" =>
      \A i \in 1..Len(proc[p].decisions.items) :
        RevisitsThread(p, i) =>
          LET c == proc[p].decisions.items[i]
              t == CHOOSE t \in ThreadsIn(proc[p].atStart, proc[p].chat_id,
                                          slugify(c.title)) : TRUE
              before == proc[p].atStart
              latest == before.decisions[LatestIn(before, t)]
          IN IF DiffersFromLatest(p, i)
             THEN /\ \E d \in VersionsIn(Families, t) :
                       /\ decisions[d].version_no = latest.version_no + 1
                       /\ decisions[d].decision_title = c.title
                  /\ \A d \in VersionsIn(before, t) :
                       decisions[d] = before.decisions[d]
             ELSE VersionsIn(Families, t) = VersionsIn(before, t)

\* C6: for every thread the version numbers of its decision rows, in the
\* order the rows were created, are 1, 2, .., n (so none repeats and none is
\* skipped), and at most one row carries the highest number.
C6_MonotonicVersions ==
  \A t \in 1..Len(decision_threads) :
    LET rows == VersionsIn(Families, t)
    IN /\ \A d \in rows :
            decisions[d].version_no = Cardinality({e \in rows : e <= d})
       /\ Cardinality({d \in rows :
                         \A e \in rows :
                           decisions[e].version_no <= decisions[d].version_no}) <= 1

\* a second pass has returned after handling a candidate that differs from the
\* version its thread already had
C6_Witness ==
  /\ proc[1].pc = "done"
  /\ \E i \in 1..Len(proc[1].decisions.items) :
       RevisitsThread(1, i) /\ DiffersFromLatest(1, i)
  /\ \E t \in 1..Len(decision_threads) : VersionsIn(Families, t) # {}

\* the threads that hold a decision citing message m
ThreadsCiting(fam, m) ==
  {fam.decisions[e[1]].thread_id :
     e \in {x \in fam.decision_evidence : x[2] = m}}

\* the responsibility rows whose source is message m
ResponsibilitiesCiting(fam, m) ==
  {r \in 1..Len(fam.responsibilities) :
     fam.responsibilities[r].source_message_id = m}

\* the messages of request p's chat behind the deterministic decision
\* candidates that an external decision was matched to
EnrichedDecisionMessages(p) ==
  UNION {MessageIds(proc[p].chat_id,
                    HashesOf(proc[p].decisionsBase,
                             firstMatch(proc[p].decisionsBase,
                                        proc[p].llmOutput.decisions[k].evidence_hashes))) :
           k \in {j \in 1..Len(proc[p].llmOutput.decisions) :
                    firstMatch(proc[p].decisionsBase,
                               proc[p].llmOutput.decisions[j].evidence_hashes)
                      # Undefined}}

\* likewise for the responsibility candidates
EnrichedResponsibilityMessages(p) ==
  UNION {MessageIds(proc[p].chat_id,
                    {proc[p].llmOutput.responsibilities[k].evidence_hash}) :
           k \in {j \in 1..Len(proc[p].llmOutput.responsibilities) :
                    hashToId(proc[p].responsibilitiesBase,
                             proc[p].llmOutput.responsibilities[j].evidence_hash)
                      # Undefined}}

\* C9: when an enrichment has persisted its merged candidates, a message
\* whose decision was stored before the enrichment and whose candidate an
\* external decision was matched to is cited by the same threads as before,
\* and a message whose responsibility was stored before and matched has the
\* same responsibility rows as before.
C9_EnrichmentNoDuplicate ==
  \A p \in Procs :
    (proc[p].kind = "enrich" /\ proc[p].merged /\ proc[p].pc = "done") =>
      /\ \A m \in EnrichedDecisionMessages(p) :
           ThreadsCiting(proc[p].atStart, m) # {} =>
             ThreadsCiting(Families, m) = ThreadsCiting(proc[p].atStart, m)
      /\ \A m \in EnrichedResponsibilityMessages(p) :
           ResponsibilitiesCiting(proc[p].atStart, m) # {} =>
             ResponsibilitiesCiting(Families, m)
               = ResponsibilitiesCiting(proc[p].atStart, m)

\* the requests accepted so far are ingestions of one transcript
SameIngestions ==
  \A k \in 1..Len(requests) :
    requests[k].kind = "import" /\ requests[k].file_sha256 = requests[1].file_sha256

\* C3: however the store operations of two ingestions of one transcript into
\* one chat interleave, there is at most one thread per (chat, thread key),
\* at most one decision per (thread, version number) and at most one
\* responsibility per (chat, owner, task text).
C3_InterleavingConverges ==
  SameIngestions =>
    /\ \A a, b \in 1..Len(decision_threads) :
         (/\ decision_threads[a].chat_id = decision_threads[b].chat_id
          /\ decision_threads[a].thread_key = decision_threads[b].thread_key)
           => a = b
    /\ \A a, b \in 1..Len(decisions) :
         (/\ decisions[a].thread_id = decisions[b].thread_id
          /\ decisions[a].version_no = decisions[b].version_no) => a = b
    /\ \A a, b \in 1..Len(responsibilities) :
         (/\ responsibilities[a].chat_id = responsibilities[b].chat_id
          /\ responsibilities[a].owner = responsibilities[b].owner
          /\ responsibilities[a].task_text = responsibilities[b].task_text)
           => a = b

\* C4: when an ingestion stopped between the insert of a decision row and the
\* insert of its evidence rows, and the same ingestion has then run again to
\* its end, that decision row has its evidence rows.
C4_RerunCompletesEvidence ==
  \A x \in hist.interrupted :
    (/\ proc[1].pc = "done" /\ proc[1].kind = "import" /\ x.kind = "import"
     /\ proc[1].file_sha256 = x.file_sha256
     /\ proc[1].chat_id = x.chat_id)
      => EvidenceOf(Families, x.decision_id) # {}

\* candidates i and j of request p's pass belong to one thread and assert
\* different outcomes
ConflictingCandidates(p, i, j) ==
  LET items == proc[p].decisions.items
  IN /\ i < j
     /\ slugify(items[i].title) = slugify(items[j].title)
     /\ items[i].explanation # items[j].explanation

\* C11: when a persistence pass has returned and two of its candidates map to
\* the same thread with different outcomes, that thread exists and holds a
\* decision row whose status is "conflicted".
C11_ConflictFlagged ==
  \A p \in Procs :
    proc[p].pc = "done" =>
      \A i, j \in 1..Len(proc[p].decisions.items) :
        ConflictingCandidates(p, i, j) =>
          LET threads == ThreadsIn(Families, proc[p].chat_id,
                                   slugify(proc[p].decisions.items[i].title))
          IN /\ threads # {}
             /\ \A t \in threads :
                  \E d \in VersionsIn(Families, t) :
                    decisions[d].status = "conflicted"

\* C12: a request whose thread insert is refused because the (chat, thread
\* key) is already stored goes on to the version check of the same candidate
\* with the stored thread.
C12_RefusedInsertRereads ==
  [][\A p \in Procs :
       (/\ proc[p].pc = "dec_thread"
        /\ ThreadInsertRefused(proc[p].chat_id, slugify(CurrentDecision(p).title))
        /\ proc'[p] # proc[p])
         => /\ proc'[p].pc = "dec_check"
            /\ proc'[p].i = proc[p].i
            /\ proc'[p].thread_id \in
                 ThreadsByKey(proc[p].chat_id, slugify(CurrentDecision(p).title))]_vars

TranscriptOf(file_sha256) ==
  CHOOSE t \in Transcripts : t.file_sha256 = file_sha256

FingerprintsOf(msgs) == {msgs[n].message_hash : n \in 1..Len(msgs)}

\* request p ingests a transcript that is the transcript of the earlier
\* request k followed by appended lines, and its sync has returned
AppendedReimport(p, k) ==
  /\ proc[p].kind = "import" /\ proc[p].pc # "idle"
  /\ k < Len(requests) /\ requests[k].kind = "import"
  /\ requests[Len(requests)].file_sha256 = proc[p].file_sha256
  /\ LET a == TranscriptOf(requests[k].file_sha256).lines
         b == TranscriptOf(proc[p].file_sha256).lines
     IN Len(a) < Len(b) /\ SubSeq(b, 1, Len(a)) = a

OriginalPortion(k) == parseChat(TranscriptOf(requests[k].file_sha256).lines)

AppendedPortion(p, k) ==
  LET all == parseChat(TranscriptOf(proc[p].file_sha256).lines)
  IN SubSeq(all, Len(OriginalPortion(k)) + 1, Len(all))

\* the message rows request p's sync inserted
NewMessageRows(p) == (Len(proc[p].atStart.messages) + 1)..Len(messages)

AfterMatching ==
  applyLLMDecisions(mergeCall.deterministic,
                    [items |-> mergeCall.deterministic.items,
                     evidence |-> mergeCall.deterministic.evidence,
                     threw |-> FALSE],
                    mergeCall.llm)

\* the external decisions that match no deterministic candidate (net-new)
NetNew == {k \in 1..Len(mergeCall.llm) : MatchOf(mergeCall.llm[k]) = Undefined}

\* the candidates that carry the external grouping key K: enriched
\* deterministic candidates by position, net-new external ones by index
EnrichedWithKey(K) ==
  {i \in 1..Len(AfterMatching.items) :
     /\ AfterMatching.items[i].thread_key = K
     /\ HasId(mergeCall.deterministic.items, AfterMatching.items[i].id)}

NetNewWithKey(K) == {k \in NetNew : mergeCall.llm[k].thread_key = K}

KeysCarried ==
  {AfterMatching.items[i].thread_key : i \in 1..Len(AfterMatching.items)}
    \ {Undefined}

KeyConfidences(K) ==
  {AfterMatching.items[i].confidence : i \in EnrichedWithKey(K)}
    \cup {mergeCall.llm[k].confidence : k \in NetNewWithKey(K)}

KeyEvidence(K) ==
  UNION ({HashesOf(AfterMatching, AfterMatching.items[i].id) :
            i \in EnrichedWithKey(K)}
         \cup {SeqToSet(mergeCall.llm[k].evidence_hashes) :
                 k \in NetNewWithKey(K)})

\* no candidate of key K has a title that the title-similarity pass would
\* collapse with a candidate of another key
AloneInFuzzyPass(K) ==
  \A i, j \in 1..Len(AfterMatching.items) :
    (AfterMatching.items[i].thread_key = K
       /\ AfterMatching.items[j].thread_key # K)
      => ~titlesAreDuplicates(AfterMatching.items[i].title,
                              AfterMatching.items[j].title)

\* C14: when mergeDecisions returns, for every external grouping key that
\* candidates carry (and whose candidates the title-similarity pass leaves
\* alone) exactly one candidate with that key is in the output, its
\* confidence is the highest confidence among the key's candidates and its
\* evidence is the union of their evidence.
C14_ExactKeyCollapse ==
  DecisionsReturned =>
    \A K \in KeysCarried :
      AloneInFuzzyPass(K) =>
        LET out == mergeOut.decisions.value
            survivors == {i \in 1..Len(out.items) : out.items[i].thread_key = K}
        IN /\ Cardinality(survivors) = 1
           /\ \A i \in survivors :
                /\ \A c \in KeyConfidences(K) : c <= out.items[i].confidence
                /\ HashesOf(out, out.items[i].id) = KeyEvidence(K)

\* the candidates of mergeDecisions after the grouping-key pass, before the
\* title-similarity pass
AfterExactKeys ==
  collapseByThreadKey(AfterMatching, AfterMatching.items, {})

\* no two candidates of the output have duplicate titles
NoDuplicateTitles ==
  LET out == mergeOut.decisions.value
  IN \A i, j \in 1..Len(out.items) :
       i # j => ~titlesAreDuplicates(out.items[i].title, out.items[j].title)

\* every candidate the title-similarity pass removed went into a candidate of
\* the output with at least its confidence and with all its evidence, and the
\* evidence of a candidate of the output is its own and that of removed ones
CollapsedIntoWinners ==
  LET out == mergeOut.decisions.value
      removed == {i \in 1..Len(AfterExactKeys.items) :
                    ~HasId(out.items, AfterExactKeys.items[i].id)}
  IN /\ \A i \in removed :
          \E j \in 1..Len(out.items) :
            /\ out.items[j].confidence >= AfterExactKeys.items[i].confidence
            /\ HashesOf(AfterExactKeys, AfterExactKeys.items[i].id)
                 \subseteq HashesOf(out, out.items[j].id)
     /\ \A j \in 1..Len(out.items) :
          /\ HasId(AfterExactKeys.items, out.items[j].id)
          /\ HashesOf(AfterExactKeys, out.items[j].id)
               \subseteq HashesOf(out, out.items[j].id)
          /\ HashesOf(out, out.items[j].id)
               \subseteq HashesOf(AfterExactKeys, out.items[j].id)
                 \cup UNION {HashesOf(AfterExactKeys, AfterExactKeys.items[i].id) :
                               i \in removed}

\* the claim as stated: whenever mergeDecisions returns
C15_NoFuzzyDuplicatesEver ==
  DecisionsReturned => NoDuplicateTitles /\ CollapsedIntoWinners

\* C15: when mergeDecisions returns from a call with at least one external
\* decision, no two candidates of the output have titles whose significant
\* words overlap in at least 65% of the smaller set, and every candidate the
\* title-similarity pass removed was collapsed into a candidate of the output
\* with at least its confidence that carries the evidence of both.
C15_FuzzyCollapse ==
  (DecisionsReturned /\ mergeCall.llm # <<>>) =>
    NoDuplicateTitles /\ CollapsedIntoWinners

\* a call with external decisions returned after the title-similarity pass
\* removed a candidate and added its evidence to the winner's
C15_Witness ==
  /\ DecisionsReturned /\ mergeCall.llm # <<>>
  /\ \E i \in 1..Len(AfterExactKeys.items) :
       /\ ~HasId(mergeOut.decisions.value.items, AfterExactKeys.items[i].id)
       /\ \E j \in 1..Len(mergeOut.decisions.value.items) :
            /\ HashesOf(AfterExactKeys, AfterExactKeys.items[i].id)
                 \subseteq HashesOf(mergeOut.decisions.value,
                                    mergeOut.decisions.value.items[j].id)
            /\ HashesOf(AfterExactKeys, mergeOut.decisions.value.items[j].id)
                 # HashesOf(mergeOut.decisions.value,
                            mergeOut.decisions.value.items[j].id)

\* the candidates of mergeResponsibilities after every external
\* responsibility was matched or appended, before the deduplication
RespAfterMatching ==
  applyLLMResponsibilities(mergeCall.deterministicResp,
                           [items |-> mergeCall.deterministicResp.items,
                            evidence |-> mergeCall.deterministicResp.evidence],
                           mergeCall.llmResp)

\* two candidates have the same owner and the same lower-cased,
\* whitespace-collapsed title
SameOwnerAndTask(a, b) ==
  /\ a.owner = b.owner
  /\ trim(collapseSpaces(toLowerCase(a.title)))
       = trim(collapseSpaces(toLowerCase(b.title)))

NoTaskCollision ==
  LET out == mergeOut.responsibilities.value
  IN \A i, j \in 1..Len(out.items) :
       i # j => ~SameOwnerAndTask(out.items[i], out.items[j])

DueDateWins ==
  LET out == mergeOut.responsibilities.value
  IN \A i \in 1..Len(RespAfterMatching.items) :
       RespAfterMatching.items[i].due # "" =>
         \E j \in 1..Len(out.items) :
           /\ SameOwnerAndTask(out.items[j], RespAfterMatching.items[i])
           /\ out.items[j].due # ""

\* the claim as stated: after every call of mergeResponsibilities
C16_NoTaskCollisionEver ==
  mergeOut.responsibilities.called => NoTaskCollision /\ DueDateWins

\* C16: after a call of mergeResponsibilities with at least one external
\* responsibility, no two candidates of the output have the same owner and
\* normalised title, and when candidates that collide include one with a due
\* date, the candidate of the output for that owner and title has a due date.
C16_TaskCollapse ==
  (mergeOut.responsibilities.called /\ mergeCall.llmResp # <<>>) =>
    NoTaskCollision /\ DueDateWins

\* a call with external responsibilities returned; after matching a candidate
\* without due date stood before a colliding candidate with one
C16_Witness ==
  /\ mergeOut.responsibilities.called /\ mergeCall.llmResp # <<>>
  /\ \E i, j \in 1..Len(RespAfterMatching.items) :
       /\ i < j
       /\ SameOwnerAndTask(RespAfterMatching.items[i], RespAfterMatching.items[j])
       /\ RespAfterMatching.items[i].due = ""
       /\ RespAfterMatching.items[j].due # ""
       /\ HasId(mergeOut.responsibilities.value.items,
                RespAfterMatching.items[j].id)
       /\ ~HasId(mergeOut.responsibilities.value.items,
                 RespAfterMatching.items[i].id)

\* every candidate of a result has at least one evidence fingerprint
EveryCandidateHasEvidence(result) ==
  \A i \in 1..Len(result.items) :
    EvidenceOr(result.evidence, result.items[i].id) # <<>>

\* C17: every candidate that runEnrichment hands to persistence after the
\* validation of a provider's reply and the merge carries at least one
\* evidence fingerprint.
C17_MergedCandidatesHaveEvidence ==
  llmOut.handed =>
    /\ EveryCandidateHasEvidence(llmOut.result.decisions)
    /\ EveryCandidateHasEvidence(llmOut.result.responsibilities)

\* the evidence identifiers in the validated output of a call
EvidenceIdsOf(w) ==
  UNION {SeqToSet(w.decisions[k].evidence_hashes) : k \in 1..Len(w.decisions)}
  \cup {w.responsibilities[k].evidence_hash : k \in 1..Len(w.responsibilities)}

\* C18: every evidence identifier in the validated output of a call of
\* runLLMOnMessages is the fingerprint of a message of the batch the prompt
\* was built from.
C18_EvidenceIsOfTheBatch ==
  llmOut.called =>
    EvidenceIdsOf(llmOut.work) \subseteq FingerprintsOf(llmCall.messages)

\* what the requests of a provider meet for the only chunk of the call
ScriptOf(provider) == llmCall.env[provider][1]

\* a request fails unless a completion comes back whose content is JSON
Fails(outcome) == outcome.kind # "json"

IsRateLimit(outcome) == outcome.kind = "http" /\ outcome.status = 429

\* the provider fails: its first request fails and, when that was a rate
\* limit, so does the second
ProviderFails(provider) ==
  /\ Fails(ScriptOf(provider)[1])
  /\ IsRateLimit(ScriptOf(provider)[1]) => Fails(ScriptOf(provider)[2])

EveryProviderFails == ProviderFails("openrouter") /\ ProviderFails("groq")

\* C19: a call of runLLMOnMessages returns for every combination of provider
\* outcomes; after a failure of the first provider that is no rate limit the
\* next request goes to the second provider; when every provider fails the
\* provider returned is null and runEnrichment hands the deterministic
\* candidates alone to persistence.
C19_InferenceFailureNotFatal ==
  /\ llmOut.called => ~llmOut.work.threw
  /\ (/\ llmOut.called
      /\ Fails(ScriptOf("openrouter")[1])
      /\ ~IsRateLimit(ScriptOf("openrouter")[1])) =>
       /\ Len(llmOut.work.calls) >= 2
       /\ llmOut.work.calls[1] = "openrouter"
       /\ llmOut.work.calls[2] = "groq"
  /\ (llmOut.called /\ EveryProviderFails) => llmOut.work.provider = "none"
  /\ (llmOut.handed /\ EveryProviderFails) =>
       /\ ~llmOut.result.merged
       /\ llmOut.result.decisions = extractDecisions(llmCall.messages)
       /\ llmOut.result.responsibilities
            = extractResponsibilities(llmCall.messages)

\* the first provider's request timed out, the second provider was rate
\* limited and then sent no JSON, and the deterministic candidates of a chat
\* with decisions went to persistence
C19_Witness ==
  /\ llmOut.handed
  /\ ScriptOf("openrouter")[1] = FetchFailed
  /\ ScriptOf("groq") = <<RateLimited, MalformedJSON>>
  /\ llmOut.work.calls = <<"openrouter", "groq", "groq">>
  /\ llmOut.work.provider = "none"
  /\ Len(llmOut.result.decisions.items) > 0

\* the provider whose completion the call takes
AnsweringProvider ==
  IF ~ProviderFails("openrouter") THEN "openrouter" ELSE "groq"

\* C20: runEnrichment reports "deterministic" in llm_used exactly when every
\* provider failed, and otherwise the provider that answered.
C20_ProviderReported ==
  llmOut.handed =>
    /\ llmOut.result.llm_used = "deterministic" <=> EveryProviderFails
    /\ ~EveryProviderFails => llmOut.result.llm_used = AnsweringProvider

\* ------------------------------------------------------------------------
\* Properties of validateLLMResult (SpecFn)
\* ------------------------------------------------------------------------

\* a string field that holds something besides white space
NonEmptyString(x, name) ==
  /\ Field(x, name).t = "string"
  /\ trim(Field(x, name).str) # ""

\* the decision contract: an object with non-empty string thread_key and
\* title, status Final or Tentative, numeric confidence, string decided_at
\* and array evidence_hashes
WellFormedDecision(x) ==
  /\ x.t = "object"
  /\ NonEmptyString(x, "thread_key")
  /\ NonEmptyString(x, "title")
  /\ Field(x, "status") \in {JString("Final"), JString("Tentative")}
  /\ Field(x, "confidence").t = "number"
  /\ Field(x, "decided_at").t = "string"
  /\ Field(x, "evidence_hashes").t = "array"

\* the responsibility contract: an object with non-empty string title and
\* evidence_hash
WellFormedResponsibility(x) ==
  /\ x.t = "object"
  /\ NonEmptyString(x, "title")
  /\ NonEmptyString(x, "evidence_hash")

\* the items of a list field of the raw reply, none when it is no list
RawItemsOf(raw, name) ==
  IF raw.t = "object" /\ Field(raw, name).t = "array"
  THEN Field(raw, name).items ELSE <<>>

\* the well-formed items of the raw reply, in their order
KeptDecisions == SelectSeq(RawItemsOf(fnCall.raw, "decisions"), WellFormedDecision)

KeptResponsibilities ==
  SelectSeq(RawItemsOf(fnCall.raw, "responsibilities"), WellFormedResponsibility)

ValidateReturned == fnCall.fn = "validateLLMResult" /\ fnOut.called

\* C21: the decisions validateLLMResult returns are the well-formed decision
\* items of the raw reply, one output per item and in the order of the reply,
\* each in its sanitised form; the same holds of the responsibilities; a reply
\* that is no object gives two empty lists.
C21_MalformedItemsDroppedOneByOne ==
  ValidateReturned =>
    /\ fnOut.value.decisions
         = [k \in 1..Len(KeptDecisions) |->
              sanitizeDecision(KeptDecisions[k], fnCall.idToHash)]
    /\ fnOut.value.responsibilities
         = [k \in 1..Len(KeptResponsibilities) |->
              sanitizeResponsibility(KeptResponsibilities[k], fnCall.idToHash)]
    /\ fnCall.raw.t # "object" =>
         fnOut.value = [decisions |-> <<>>, responsibilities |-> <<>>]

\* a decision with a status outside the contract came before a well-formed
\* one, and the well-formed one alone was returned
C21_Witness ==
  /\ ValidateReturned
  /\ RawItemsOf(fnCall.raw, "decisions") = <<RawBadStatus, RawSimilar>>
  /\ Len(fnOut.value.decisions) = 1
  /\ fnOut.value.decisions[1].title = "Team approved plan"
  /\ Len(fnOut.value.responsibilities) = 1

\* ------------------------------------------------------------------------
\* Properties of the extractors (SpecFn)
\* ------------------------------------------------------------------------

ExtractReturned == fnCall.fn = "extract" /\ fnOut.called

ScannedIndexes == 1..Len(fnCall.messages)

\* the first line of the message at index k, the title of its candidates
TitleLineAt(k) == truncate(firstLine(fnCall.messages[k].message_text), 80)

\* the messages whose text holds a phrase of the final vocabulary, a phrase
\* of the tentative vocabulary, the option pattern
MessagesWithFinalTrigger ==
  {m \in ScanMessages :
     \E t \in DECISION_FINAL_TRIGGERS : includes(toLowerCase(m.message_text), t)}

MessagesWithTentativeTrigger ==
  {m \in ScanMessages :
     \E t \in DECISION_TENTATIVE_TRIGGERS :
       includes(toLowerCase(m.message_text), t)}

MessagesWithOptionPattern ==
  {m \in ScanMessages : OPTION_SELECT_RE(m.message_text)}

HasFinalTrigger(k) == fnCall.messages[k] \in MessagesWithFinalTrigger

HasTentativeTrigger(k) == fnCall.messages[k] \in MessagesWithTentativeTrigger

HasOptionPattern(k) == fnCall.messages[k] \in MessagesWithOptionPattern

HasDecisionTrigger(k) ==
  HasFinalTrigger(k) \/ HasTentativeTrigger(k) \/ HasOptionPattern(k)

\* no earlier message of the pass with a decision trigger has the same title
FirstDecisionOfItsTitle(k) ==
  \A j \in 1..(k - 1) :
    HasDecisionTrigger(j) => TitleLineAt(j) # TitleLineAt(k)

\* the decision candidates made from the message at index k
DecisionCandidatesOf(k) ==
  {c \in SeqToSet(fnOut.decisions.items) :
     /\ c.title = TitleLineAt(k)
     /\ c.timestamp = fnCall.messages[k].timestamp
     /\ fnOut.decisions.evidence[c.id] = <<fnCall.messages[k].message_hash>>}

MessagesWithResponsibilityTrigger ==
  {m \in ScanMessages :
     detectResponsibilityTrigger(toLowerCase(m.message_text), m.message_text)}

HasResponsibilityTrigger(k) ==
  fnCall.messages[k] \in MessagesWithResponsibilityTrigger

\* what one extractor returned: the ids are pairwise distinct, there is one
\* candidate for each title of a triggering message, and it carries the
\* timestamp and the fingerprint of the first triggering message with that
\* title, and nothing else as evidence
OnePerTitle(result, Triggers(_)) ==
  LET items == result.items
      firsts == {k \in ScannedIndexes :
                   /\ Triggers(k)
                   /\ \A j \in 1..(k - 1) :
                        Triggers(j) => TitleLineAt(j) # TitleLineAt(k)}
  IN /\ \A a, b \in 1..Len(items) : a # b => items[a].id # items[b].id
     /\ Len(items) = Cardinality(firsts)
     /\ DOMAIN result.evidence = {items[a].id : a \in 1..Len(items)}
     /\ \A k \in firsts :
          \E a \in 1..Len(items) :
            /\ items[a].title = TitleLineAt(k)
            /\ items[a].timestamp = fnCall.messages[k].timestamp
            /\ result.evidence[items[a].id]
                 = <<fnCall.messages[k].message_hash>>
     /\ \A a, b \in 1..Len(items) :
          a < b =>
            \E j, k \in firsts :
              /\ j < k
              /\ items[a].title = TitleLineAt(j)
              /\ items[b].title = TitleLineAt(k)

\* C23: within one pass each extractor returns candidates with pairwise
\* distinct ids; the messages with one title give one candidate, made from the
\* first of them in input order, and the evidence of a candidate is the
\* fingerprint of the message it was made from and nothing else.
C23_OneCandidatePerTitle ==
  ExtractReturned =>
    /\ OnePerTitle(fnOut.decisions, HasDecisionTrigger)
    /\ OnePerTitle(fnOut.responsibilities, HasResponsibilityTrigger)

\* two messages with one first line were scanned, the second with a final
\* trigger on its second line; the one candidate is that of the first
C23_Witness ==
  /\ ExtractReturned
  /\ Len(fnCall.messages) = 2
  /\ fnCall.messages[1] # fnCall.messages[2]
  /\ TitleLineAt(1) = TitleLineAt(2)
  /\ HasDecisionTrigger(1) /\ HasFinalTrigger(2) /\ ~HasFinalTrigger(1)
  /\ Len(fnOut.decisions.items) = 1
  /\ fnOut.decisions.items[1].status = "Tentative"

\* no earlier message of the pass that triggers a responsibility has the
\* same title
FirstResponsibilityOfItsTitle(k) ==
  \A j \in 1..(k - 1) :
    HasResponsibilityTrigger(j) => TitleLineAt(j) # TitleLineAt(k)

\* the responsibility candidates made from the message at index k
ResponsibilityCandidatesOf(k) ==
  {c \in SeqToSet(fnOut.responsibilities.items) :
     /\ c.title = TitleLineAt(k)
     /\ c.timestamp = fnCall.messages[k].timestamp
     /\ fnOut.responsibilities.evidence[c.id]
          = <<fnCall.messages[k].message_hash>>}

\* the messages with first-person self-commitment phrasing
MessagesWithSelfCommitment ==
  {m \in ScanMessages : MatchesWordAlt(m.message_text, RESP_SELF_ALTS)}

HasSelfCommitment(k) == fnCall.messages[k] \in MessagesWithSelfCommitment

ParseReturned == fnCall.fn = "parseChat" /\ fnOut.called

\* the positions of the header lines of the transcript
HeaderPositions == {i \in 1..Len(fnCall.lines) : fnCall.lines[i].header}

\* the position of the n-th header line
NthHeader(n) ==
  CHOOSE i \in HeaderPositions :
    Cardinality({j \in HeaderPositions : j <= i}) = n

\* the lines without a header that follow position i up to the next header,
\* each after a newline
RECURSIVE ContinuationFrom(_)
ContinuationFrom(i) ==
  IF i > Len(fnCall.lines) \/ fnCall.lines[i].header THEN ""
  ELSE "\n" \o fnCall.lines[i].message_text \o ContinuationFrom(i + 1)

\* C25: parseChat returns one message per header line, in the order of the
\* file; the body of a message is the text of its header line followed by
\* every line without a header up to the next header line, each after a
\* newline; lines before the first header line appear in no message; a
\* transcript without a header line gives the empty sequence.
C25_OneMessagePerHeader ==
  ParseReturned =>
    /\ Len(fnOut.value) = Cardinality(HeaderPositions)
    /\ \A n \in 1..Len(fnOut.value) :
         /\ fnOut.value[n].timestamp = fnCall.lines[NthHeader(n)].timestamp
         /\ fnOut.value[n].sender
              = normalizeSender(fnCall.lines[NthHeader(n)].sender)
         /\ fnOut.value[n].message_text
              = fnCall.lines[NthHeader(n)].message_text
                  \o ContinuationFrom(NthHeader(n) + 1)
    /\ HeaderPositions = {} => fnOut.value = <<>>

\* a transcript of a stray line, a header line and a line without a header
\* gave one message of two lines
C25_Witness ==
  /\ ParseReturned
  /\ fnCall.lines = <<Cont("see the notes "), LineFix, Cont("see the notes ")>>
  /\ Len(fnOut.value) = 1
  /\ fnOut.value[1].message_text = "I'll fix the build\nsee the notes "

HashReturned == fnCall.fn = "computeMessageHash" /\ fnOut.called

\* the fields of the two messages that differ as given
DifferingFields ==
  {f \in {"timestamp", "sender", "message_text"} :
     fnCall.first[f] # fnCall.second[f]}

\* a message as computeMessageHash joins it: white space trimmed and
\* collapsed in timestamp and sender, line endings unified and white space
\* removed at the ends of the body and of its lines
NormalizedMessage(m) ==
  [timestamp |-> collapseSpaces(trim(m.timestamp)),
   sender |-> collapseSpaces(trim(m.sender)),
   message_text |-> normalizeMessageText(m.message_text)]

\* the fields of the two messages that differ after normalisation
DifferingNormalizedFields ==
  {f \in {"timestamp", "sender", "message_text"} :
     NormalizedMessage(fnCall.first)[f] # NormalizedMessage(fnCall.second)[f]}

\* C26 as stated: two messages that differ in one of timestamp, sender and
\* body get different fingerprints.
C26_AnyDifferenceChangesFingerprint ==
  (HashReturned /\ Cardinality(DifferingFields) = 1) =>
    fnOut.first # fnOut.second

\* C26: computeMessageHash gives one fingerprint for one (timestamp, sender,
\* body); two messages that differ in one of the three after normalisation
\* get different fingerprints, and two messages that differ only in what
\* normalisation removes get the same fingerprint.
C26_FingerprintOfNormalizedMessage ==
  HashReturned =>
    /\ fnOut.first = fnOut.again
    /\ Cardinality(DifferingNormalizedFields) = 1 => fnOut.first # fnOut.second
    /\ DifferingNormalizedFields = {} => fnOut.first = fnOut.second

\* two messages that differ in the letter case of the body got different
\* fingerprints
C26_Witness ==
  /\ HashReturned
  /\ fnCall.first = [timestamp |-> Ts1, sender |-> "Bob", message_text |-> "ok"]
  /\ fnCall.second = [timestamp |-> Ts1, sender |-> "Bob", message_text |-> "Ok"]
  /\ fnOut.first = fnOut.again
  /\ fnOut.first # fnOut.second

\* ------------------------------------------------------------------------
\* mergeDecisions returns (SpecMerge)
\* ------------------------------------------------------------------------

\* no external decision of the call has a grouping key that byThreadKey
\* inherits
NoInheritedKey ==
  \A k \in 1..Len(mergeCall.llm) :
    mergeCall.llm[k].thread_key \notin InheritedKeys

\* C28: mergeDecisions returns a result and does not throw: in the
\* title-similarity pass the candidate whose title and confidence are read is
\* present in the working set, also after the earlier candidate of a similar
\* pair was deleted as the loser while later candidates remain to be compared.
C28_FuzzyPassReadsPresentCandidates ==
  (mergeOut.decisions.called /\ NoInheritedKey) => ~mergeOut.decisions.threw

\* ------------------------------------------------------------------------
\* Properties of withRetry (SpecFn)
\* ------------------------------------------------------------------------

RetryReturned == fnCall.fn = "withRetry" /\ fnOut.called

\* how the k-th call of fn ends
AttemptAt(k) ==
  IF fnCall.provider = "openrouter"
  THEN callOpenRouter(fnCall.script[k], FirstExportIds)
  ELSE callGroq(fnCall.script[k], FirstExportIds)

\* the k-th call of fn throws an error that signals a 429
RateLimitedAt(k) == AttemptAt(k).threw /\ includes(AttemptAt(k).message, "429")

\* the first call of fn that succeeds or throws an error without a 429, and
\* the last call allowed when there is none
LastAttempt ==
  IF \E k \in 1..fnCall.maxAttempts : ~RateLimitedAt(k)
  THEN CHOOSE k \in 1..fnCall.maxAttempts :
         /\ ~RateLimitedAt(k)
         /\ \A j \in 1..(k - 1) : RateLimitedAt(j)
  ELSE fnCall.maxAttempts

\* C29: withRetry calls fn at most maxAttempts times and calls it again only
\* after an error that signals a 429: it returns the result of the first
\* call that succeeds, throws the first error without a 429 with no further
\* call, and after maxAttempts errors with a 429 throws the last of them.
C29_RetryBoundedAndOnlyOnRateLimit ==
  RetryReturned =>
    /\ fnOut.value.attempts <= fnCall.maxAttempts
    /\ fnOut.value.attempts = LastAttempt
    /\ fnOut.value.threw = AttemptAt(LastAttempt).threw
    /\ ~fnOut.value.threw => fnOut.value.result = AttemptAt(LastAttempt).result
    /\ fnOut.value.threw => fnOut.value.message = AttemptAt(LastAttempt).message

\* two rate limits and then a completion, with three attempts allowed
C29_Witness ==
  /\ RetryReturned
  /\ fnCall.maxAttempts = 3
  /\ RateLimitedAt(1) /\ RateLimitedAt(2) /\ ~AttemptAt(3).threw
  /\ fnOut.value.attempts = 3
  /\ ~fnOut.value.threw
  /\ Len(fnOut.value.result.decisions) = 1

\* ------------------------------------------------------------------------
\* Properties of the chunk loop of runLLMOnMessages (SpecChunks)
\* ------------------------------------------------------------------------

RunLength == Len(fnCall.messages)

Chunked == RunLength > 700

\* the number of chunks: one up to the threshold, above it one per 200
\* messages and one for the rest
ChunkCount == IF Chunked THEN (RunLength + 199) \div 200 ELSE 1

\* the position before the first message of chunk i
ChunkOffset(i) == IF Chunked THEN 200 * (i - 1) ELSE 0

\* the number of messages of chunk i
ChunkLength(i) ==
  IF ~Chunked THEN RunLength
  ELSE IF 200 * i <= RunLength THEN 200 ELSE RunLength - 200 * (i - 1)

\* the chunks whose call has returned
ProcessedChunks == 1..(fnOut.i - 1)

\* the requests made to a provider for chunk i
RequestsIn(i, provider) ==
  Cardinality({b \in 1..Len(fnOut.log) :
                 fnOut.log[b] = [kind |-> "call", chunk |-> i,
                                 provider |-> provider]})

\* what the last request made to a provider for chunk i met
LastOutcomeIn(i, provider) ==
  ScriptFor(fnCall.env[provider], i)[RequestsIn(i, provider)]

\* the provider was asked for chunk i and answered; it was asked and failed
AnsweredChunk(i, provider) ==
  RequestsIn(i, provider) > 0 /\ LastOutcomeIn(i, provider).kind = "json"

FailedOnChunk(i, provider) ==
  RequestsIn(i, provider) > 0 /\ LastOutcomeIn(i, provider).kind # "json"

\* the fingerprints behind the batch-local ids the replies cite, for chunk i
CitedIds(i) ==
  [id \in {BatchId(k) : k \in {n \in 0..2 : n < ChunkLength(i)}} |->
     fnCall.messages[ChunkOffset(i) + 1
                     + (CHOOSE k \in 0..2 : BatchId(k) = id)].message_hash]

\* the candidates chunk i contributes: those of the reply of the provider
\* that answered, with the ids of the chunk resolved; none when none answered
ResultOfChunk(i) ==
  IF \E provider \in {"openrouter", "groq"} : AnsweredChunk(i, provider)
  THEN validateLLMResult(
         LastOutcomeIn(i, CHOOSE provider \in {"openrouter", "groq"} :
                            AnsweredChunk(i, provider)).value,
         CitedIds(i))
  ELSE [decisions |-> <<>>, responsibilities |-> <<>>]

\* the candidates of the chunks 1..i, in the order of the chunks
RECURSIVE ResultsUpTo(_)
ResultsUpTo(i) ==
  IF i = 0 THEN [decisions |-> <<>>, responsibilities |-> <<>>]
  ELSE Bind(ResultsUpTo(i - 1),
            LAMBDA before :
              Bind(ResultOfChunk(i),
                   LAMBDA this :
                     [decisions |-> before.decisions \o this.decisions,
                      responsibilities |-> before.responsibilities
                                             \o this.responsibilities]))

\* the concatenation of a sequence of sequences
RECURSIVE Flatten(_)
Flatten(qs) == IF qs = <<>> THEN <<>> ELSE Head(qs) \o Flatten(Tail(qs))

\* both providers have failed on a chunk up to chunk i
BothFailedBy(i) ==
  \A provider \in {"openrouter", "groq"} :
    \E j \in 1..i : FailedOnChunk(j, provider)

\* C27: above the threshold runLLMOnMessages splits the messages into
\* consecutive chunks of at most 200 whose concatenation is the input; the
\* requests are made chunk after chunk, those of a chunk after the first
\* follow a sleep made for that chunk, and whenever the loop stands at a chunk
\* the candidates held are those of the chunks before it, in their order; the
\* lists returned are those of all chunks unless both providers failed; up to
\* the threshold one call covers all messages and there is no sleep.
C27_ChunksInOrderOneAtATime ==
  /\ Flatten(chunksOf(fnCall.messages)) = fnCall.messages
  /\ Len(chunksOf(fnCall.messages)) = ChunkCount
  /\ \A i \in 1..ChunkCount : Len(chunksOf(fnCall.messages)[i]) = ChunkLength(i)
  /\ \A a, b \in 1..Len(fnOut.log) :
       a < b =>
         /\ fnOut.log[a].chunk <= fnOut.log[b].chunk
         /\ fnOut.log[a].kind = "sleep" => fnOut.log[a] # fnOut.log[b]
  /\ \A b \in 1..Len(fnOut.log) :
       /\ fnOut.log[b].kind = "sleep" => fnOut.log[b].chunk > 1
       /\ (fnOut.log[b].kind = "call" /\ fnOut.log[b].chunk > 1) =>
            \E a \in 1..(b - 1) :
              fnOut.log[a] = [kind |-> "sleep", chunk |-> fnOut.log[b].chunk,
                              provider |-> "none"]
  /\ ResultsUpTo(fnOut.i - 1) = [decisions |-> fnOut.acc.decisions,
                                 responsibilities |-> fnOut.acc.responsibilities]
  /\ fnOut.called =>
       \/ ProcessedChunks = 1..ChunkCount
       \/ BothFailedBy(fnOut.i - 1)
  /\ (fnOut.called /\ ~Chunked) =>
       /\ ProcessedChunks = {1}
       /\ \A b \in 1..Len(fnOut.log) : fnOut.log[b].kind = "call"

\* a chat of 701 messages went through four chunks, each answered: the
\* decision of the second chunk cites the first message of that chunk
C27_Witness ==
  /\ fnOut.called
  /\ RunLength = 701
  /\ ProcessedChunks = 1..4
  /\ Len(fnOut.acc.decisions) = 4
  /\ fnOut.acc.decisions[2].evidence_hashes[1] = fnCall.messages[201].message_hash
  /\ Cardinality({b \in 1..Len(fnOut.log) : fnOut.log[b].kind = "sleep"}) = 3

\* C30: within one run a provider that failed on a chunk gets no request for
\* any later chunk; once both providers have failed no later chunk is
\* processed; the run returns, and the lists it returns hold the candidates of
\* the chunks that were answered before.
C30_FailedProviderNeverCalledAgain ==
  /\ \A b \in 1..Len(fnOut.log) :
       fnOut.log[b].kind = "call" =>
         \A j \in 1..(fnOut.log[b].chunk - 1) :
           ~FailedOnChunk(j, fnOut.log[b].provider)
  /\ \A j \in ProcessedChunks :
       BothFailedBy(j) =>
         /\ fnOut.i = j + 1
         /\ \A b \in 1..Len(fnOut.log) : fnOut.log[b].chunk <= j
  /\ fnOut.called =>
       /\ ~fnOut.acc.threw
       /\ \A j \in ProcessedChunks :
            \A k \in 1..Len(ResultOfChunk(j).decisions) :
              \E n \in 1..Len(fnOut.acc.decisions) :
                fnOut.acc.decisions[n] = ResultOfChunk(j).decisions[k]

\* the first provider failed on the first chunk of 701 messages and the
\* second answered it; the second failed on the second chunk: the run
\* returned the decision of the first chunk and left two chunks unprocessed
C30_Witness ==
  /\ fnOut.called
  /\ RunLength = 701
  /\ FailedOnChunk(1, "openrouter") /\ AnsweredChunk(1, "groq")
  /\ FailedOnChunk(2, "groq") /\ RequestsIn(2, "openrouter") = 0
  /\ ScriptFor(fnCall.env.openrouter, 2)[1].kind = "json"
  /\ ProcessedChunks = {1, 2}
  /\ Len(fnOut.acc.decisions) = 1
  /\ fnOut.acc.provider = "groq"

====
